---- MODULE Spec2Model ----
(***************************************************************************)
(* Model of the phishing-detection backend: the /predict handler           *)
(* (backend/app.py), the input validator (backend/url_validator.py), the   *)
(* result cache (backend/database.py), the classifier's predict            *)
(* (backend/ml_model.py) and the threat-intel flags                        *)
(* (backend/threat_intel.py).                                              *)
(*                                                                         *)
(* Strings are sequences of one-character strings.  Confidences are        *)
(* fixed-point numbers in hundredths (0.85 is 85); IEEE rounding of the    *)
(* Python floats is not modelled.                                          *)
(***************************************************************************)
EXTENDS Integers, Sequences, FiniteSets, TLC

----------------------------------------------------------------------------
(* Characters and elementary string functions (Python str methods).        *)

LowerSeq ==
  << "a","b","c","d","e","f","g","h","i","j","k","l","m",
     "n","o","p","q","r","s","t","u","v","w","x","y","z" >>

UpperSeq ==
  << "A","B","C","D","E","F","G","H","I","J","K","L","M",
     "N","O","P","Q","R","S","T","U","V","W","X","Y","Z" >>

Range(f) == { f[i] : i \in DOMAIN f }

\* local variables: e is evaluated once and F is applied to its value
Let(e, F(_)) == CHOOSE r \in { F(v) : v \in { e } } : TRUE

Let2(e1, e2, F(_, _)) == CHOOSE r \in { F(v, w) : v \in { e1 }, w \in { e2 } } : TRUE

Lowers == Range(LowerSeq)
Uppers == Range(UpperSeq)
Letters == Lowers \cup Uppers
Digits == { "0","1","2","3","4","5","6","7","8","9" }
Alnum == Letters \cup Digits
Whitespace == { " ", "\t", "\n", "\r" }

Min(S) == Let(S, LAMBDA T : CHOOSE x \in T : \A y \in T : x <= y)
Max(S) == Let(S, LAMBDA T : CHOOSE x \in T : \A y \in T : y <= x)

\* str.lower() on one character
LowerChar(c) ==
  IF c \in Uppers
    THEN LowerSeq[CHOOSE i \in DOMAIN UpperSeq : UpperSeq[i] = c]
    ELSE c

\* str.lower()
Lower(s) == Let(s, LAMBDA t : [ i \in DOMAIN t |-> LowerChar(t[i]) ])

\* str.strip()
Strip(s) ==
  Let(s, LAMBDA t :
    Let({ i \in DOMAIN t : t[i] \notin Whitespace }, LAMBDA keep :
      IF keep = {} THEN << >>
      ELSE SubSeq(t, CHOOSE i \in keep : \A j \in keep : i <= j,
                     CHOOSE i \in keep : \A j \in keep : j <= i)))

\* str.startswith(pre)
StartsWith(s, pre) ==
  Let(s, LAMBDA t : Len(pre) <= Len(t) /\ SubSeq(t, 1, Len(pre)) = pre)

\* str.endswith(suf)
EndsWith(s, suf) ==
  Let(s, LAMBDA t :
    Len(suf) <= Len(t) /\ SubSeq(t, Len(t) - Len(suf) + 1, Len(t)) = suf)

\* str.find(sub) as the set of 0-based offsets at which sub occurs
Occurrences(s, sub) ==
  Let2(s, sub, LAMBDA t, u :
    { i \in 0 .. (Len(t) - Len(u)) : SubSeq(t, i + 1, i + Len(u)) = u })

\* the Python test  sub in s
Contains(s, sub) == Occurrences(s, sub) # {}

\* str.find(sub, start): 0-based offset of the first occurrence, or -1
Find(s, sub, start) ==
  Let({ i \in Occurrences(s, sub) : i >= start }, LAMBDA O :
    IF O = {} THEN -1 ELSE CHOOSE i \in O : \A j \in O : i <= j)

\* str.rfind(sub)
RFind(s, sub) ==
  Let(Occurrences(s, sub), LAMBDA O :
    IF O = {} THEN -1 ELSE CHOOSE i \in O : \A j \in O : j <= i)

\* the Python slice s[a:b] for 0 <= a, b
Slice(s, a, b) ==
  Let2(s, b, LAMBDA t, e :
    IF a >= Min({ e, Len(t) }) THEN << >> ELSE SubSeq(t, a + 1, Min({ e, Len(t) })))

\* s[a:]
SliceFrom(s, a) == Let(s, LAMBDA t : Slice(t, a, Len(t)))

\* str.lstrip() of white space
LStrip(s) ==
  Let(s, LAMBDA t :
    Let({ i \in DOMAIN t : t[i] \notin Whitespace }, LAMBDA keep :
      IF keep = {} THEN << >>
      ELSE SubSeq(t, CHOOSE i \in keep : \A j \in keep : i <= j, Len(t))))

\* str.replace(c, "") for every character c of the set C
RECURSIVE RemoveChars(_, _)
RemoveChars(s, C) ==
  Let(s, LAMBDA t :
    IF t = << >> THEN << >>
    ELSE IF Head(t) \in C THEN RemoveChars(Tail(t), C)
         ELSE << Head(t) >> \o RemoveChars(Tail(t), C))

\* str.count(c) for a single character c
Count(s, c) == Let(s, LAMBDA t : Cardinality({ i \in DOMAIN t : t[i] = c }))


----------------------------------------------------------------------------
(* Regular-expression matching.  A match state is the set of offsets       *)
(* (number of characters consumed) the pattern can have reached.           *)

\* one character of class C
Cls(s, P, C) ==
  Let(s, LAMBDA t : { p + 1 : p \in { q \in P : q < Len(t) /\ t[q + 1] \in C } })

\* at most n characters of class C : C{0,n}
RECURSIVE RepUpTo(_, _, _, _)
RepUpTo(s, P, C, n) ==
  IF n = 0 THEN P
  ELSE Let(P, LAMBDA Q :
         Let(Q \cup Cls(s, Q, C), LAMBDA N :
           IF N = Q THEN Q ELSE RepUpTo(s, N, C, n - 1)))

\* C*
Star(s, P, C) == RepUpTo(s, P, C, Len(s))

\* C+
Plus(s, P, C) == Star(s, Cls(s, P, C), C)

\* a literal (matched case-insensitively when lit is lower-case and the
\* pattern has re.IGNORECASE; callers pass Lower(s) in that case)
Lit(s, P, lit) ==
  Let(Occurrences(s, lit), LAMBDA O : { p + Len(lit) : p \in P \cap O })

\* $ : at the end of the string, or just before a final newline
AtEnd(s, P) ==
  Let(s, LAMBDA t :
    \E p \in P : p = Len(t) \/ (p = Len(t) - 1 /\ t[Len(t)] = "\n"))

----------------------------------------------------------------------------
(* urllib.parse.urlparse (CPython 3.11), as called by the validator.       *)

SchemeChars == Alnum \cup { "+", "-", "." }

uses_params ==
  { <<  >>,
    << "f", "t", "p" >>,
    << "h", "d", "l" >>,
    << "p", "r", "o", "s", "p", "e", "r", "o" >>,
    << "h", "t", "t", "p" >>,
    << "i", "m", "a", "p" >>,
    << "h", "t", "t", "p", "s" >>,
    << "s", "h", "t", "t", "p" >>,
    << "r", "t", "s", "p" >>,
    << "r", "t", "s", "p", "u" >>,
    << "s", "i", "p" >>,
    << "s", "i", "p", "s" >>,
    << "m", "m", "s" >>,
    << "s", "f", "t", "p" >>,
    << "t", "e", "l" >> }

\* _splitnetloc(url, 2): the authority ends at the first of  / ? #
SplitNetlocAt(url) ==
  Let({ d \in { Find(url, << c >>, 2) : c \in { "/", "?", "#" } } : d >= 0 },
      LAMBDA D : IF D = {} THEN Len(url) ELSE Min(D))

\* _check_bracketed_host(hostname): an IPvFuture literal v<hex>+.<any>+ , or
\* an IPv6 address.  For IPv6 the model keeps the necessary condition of
\* ipaddress.ip_address: hexadecimal groups separated by colons, at least
\* two colons, optionally ending in a dotted quad.
HexDigits == Digits \cup { "a","b","c","d","e","f","A","B","C","D","E","F" }

BracketedHostOk(netloc) ==
  Let(Let(SliceFrom(netloc, Find(netloc, << "[" >>, 0) + 1), LAMBDA rest :
        Slice(rest, 0, Find(rest, << "]" >>, 0))),
      LAMBDA host :
      IF StartsWith(host, << "v" >>)
        THEN Len(host) \in
               Plus(host, Lit(host, Plus(host, {1}, HexDigits), << "." >>),
                    Range(host) \ { "\n" })
        ELSE /\ Count(host, ":") >= 2
             /\ \A k \in DOMAIN host : host[k] \in HexDigits \cup { ":", "." })

\* _splitparams(url)
SplitParamsAt(url) ==
  IF Contains(url, << "/" >>)
    THEN Find(url, << ";" >>, RFind(url, << "/" >>))
    ELSE Find(url, << ";" >>, 0)

\* urlsplit raises ValueError("Invalid IPv6 URL") or rejects the bracketed host
NetlocError(netloc) ==
  \/ (Contains(netloc, << "[" >>) /\ ~Contains(netloc, << "]" >>))
  \/ (Contains(netloc, << "]" >>) /\ ~Contains(netloc, << "[" >>))
  \/ (Contains(netloc, << "[" >>) /\ Contains(netloc, << "]" >>)
        /\ ~BracketedHostOk(netloc))

\* the scheme ends at offset i of the first colon when the text before it
\* starts with a letter and consists of scheme characters; -1 when there is
\* no scheme
SchemeEndAt(url, i) ==
  IF i > 0 /\ url[1] \in Letters /\ (\A k \in 1 .. i : url[k] \in SchemeChars)
    THEN i ELSE -1

SchemeEnd(url) == SchemeEndAt(url, Find(url, << ":" >>, 0))

\* s[:i] when i >= 0, else the default
Before(s, i, default) == IF i >= 0 THEN Slice(s, 0, i) ELSE default

\* s[i+1:] when i >= 0, else the default
After(s, i, default) == IF i >= 0 THEN SliceFrom(s, i + 1) ELSE default

\* urlparse: the path after _splitparams
PathOf(scheme, url) ==
  IF scheme \in uses_params /\ Contains(url, << ";" >>)
    THEN Before(url, SplitParamsAt(url), url)
    ELSE url

\* urlsplit after the fragment has been split off; q is url.find('?')
SplitQuery(scheme, netloc, url, fragment, q) ==
  [ err |-> NetlocError(netloc), scheme |-> scheme, netloc |-> netloc,
    path     |-> Let(Before(url, q, url), LAMBDA p : PathOf(scheme, p)),
    query    |-> After(url, q, << >>),
    fragment |-> fragment ]

\* urlsplit after the authority has been split off; h is url.find('#')
SplitFragment(scheme, netloc, url, h) ==
  Let(Before(url, h, url), LAMBDA u :
    SplitQuery(scheme, netloc, u, After(url, h, << >>), Find(u, << "?" >>, 0)))

\* urlsplit after the scheme has been split off; d is the end of the authority
SplitNetloc(scheme, url, d) ==
  Let(IF Slice(url, 0, 2) = << "/", "/" >> THEN SliceFrom(url, d) ELSE url,
      LAMBDA u :
        SplitFragment(scheme,
                      IF Slice(url, 0, 2) = << "/", "/" >> THEN Slice(url, 2, d)
                      ELSE << >>,
                      u, Find(u, << "#" >>, 0)))

\* urlsplit after the leading white space and the tab, CR, LF are removed;
\* i is the end of the scheme
SplitScheme(url, i) ==
  Let(After(url, i, url), LAMBDA u :
    Let(Lower(Before(url, i, << >>)), LAMBDA scheme :
      SplitNetloc(scheme, u, SplitNetlocAt(u))))

\* urlparse(url): err is TRUE when urlsplit raises ValueError
urlparse(url0) ==
  Let(RemoveChars(LStrip(url0), { "\t", "\r", "\n" }), LAMBDA u :
    SplitScheme(u, SchemeEnd(u)))

----------------------------------------------------------------------------
(* backend/url_validator.py : URLValidator                                 *)

S_at        == << "@" >>
S_dot       == << "." >>
S_colon     == << ":" >>
S_slash     == << "/" >>
S_sep       == << ":", "/", "/" >>
S_http      == << "h", "t", "t", "p" >>
S_httpSep   == << "h", "t", "t", "p", ":", "/", "/" >>
S_localhost == << "l", "o", "c", "a", "l", "h", "o", "s", "t" >>
S_www       == << "w", "w", "w", "." >>

common_tlds ==
  { << ".", "c", "o", "m" >>,
    << ".", "o", "r", "g" >>,
    << ".", "n", "e", "t" >>,
    << ".", "e", "d", "u" >>,
    << ".", "g", "o", "v" >>,
    << ".", "i", "o" >>,
    << ".", "c", "o" >>,
    << ".", "u", "k" >>,
    << ".", "d", "e" >>,
    << ".", "f", "r" >>,
    << ".", "j", "p" >>,
    << ".", "c", "n" >>,
    << ".", "a", "u" >>,
    << ".", "c", "a" >> }

\* EMAIL_PATTERN  ^[a-zA-Z0-9._%+-]+@[a-zA-Z0-9.-]+\.[a-zA-Z]{2,}$
EMAIL_PATTERN(s) ==
  LET p1 == Plus(s, {0}, Alnum \cup { ".", "_", "%", "+", "-" })
      p2 == Lit(s, p1, S_at)
      p3 == Plus(s, p2, Alnum \cup { ".", "-" })
      p4 == Lit(s, p3, S_dot)
      p5 == Star(s, Cls(s, Cls(s, p4, Letters), Letters), Letters)
  IN  AtEnd(s, p5)

\* (?:[A-Z0-9](?:[A-Z0-9-]{0,61}[A-Z0-9])?\.)  one domain label and its dot
DomainLabel(s, P) ==
  Let(Cls(s, P, Alnum), LAMBDA a :
    Lit(s, a \cup Cls(s, RepUpTo(s, a, Alnum \cup { "-" }, 61), Alnum), S_dot))

\* (?: label )+
RECURSIVE DomainLabels(_, _)
DomainLabels(s, P) ==
  Let(P, LAMBDA Q :
    Let(Q \cup DomainLabel(s, Q), LAMBDA N :
      IF N = Q THEN Q ELSE DomainLabels(s, N)))

\* (?: label )+[A-Z]{2,6}\.?
DomainName(s, P) ==
  Let(RepUpTo(s, Cls(s, Cls(s, DomainLabels(s, DomainLabel(s, P)), Letters),
                     Letters), Letters, 4),
      LAMBDA t : t \cup Lit(s, t, S_dot))

\* \d{1,3}
Octet(s, P) == RepUpTo(s, Cls(s, P, Digits), Digits, 2)

\* \d{1,3}\.\d{1,3}\.\d{1,3}\.\d{1,3}
DottedQuad(s, P) ==
  Octet(s, Lit(s, Octet(s, Lit(s, Octet(s, Lit(s, Octet(s, P), S_dot)), S_dot)), S_dot))

\* domain | localhost | ip, then (?::\d+)?   (re.IGNORECASE)
HostPort(s, P) ==
  Let(P, LAMBDA Q :
    Let(DomainName(s, Q) \cup Lit(Lower(s), Q, S_localhost) \cup DottedQuad(s, Q),
        LAMBDA h : h \cup Plus(s, Lit(s, h, S_colon), Digits)))

\* (?:/?|[/?]\S+)
PathTail(s, P) ==
  Let(P, LAMBDA Q :
    Q \cup Lit(s, Q, S_slash)
      \cup Plus(s, Cls(s, Q, { "/", "?" }), Range(s) \ Whitespace))

\* URL_PATTERN : ^https?:// host port tail $
URL_PATTERN(s) ==
  Let(Lit(Lower(s), {0}, S_http), LAMBDA h :
    AtEnd(s, PathTail(s, HostPort(s, Lit(s, h \cup Cls(s, h, { "s", "S" }), S_sep)))))

\* URL_PATTERN_SIMPLE : ^ host port (tail)? $
URL_PATTERN_SIMPLE(s) ==
  Let(HostPort(s, {0}), LAMBDA hp : AtEnd(s, hp \cup PathTail(s, hp)))

is_email(text0) ==
  IF text0 = << >> THEN FALSE ELSE Let(Strip(text0), EMAIL_PATTERN)

\* is_url whose last line returns True
is_url_fallsThrough(text0) ==
  IF text0 = << >> THEN FALSE ELSE ~is_email(Strip(text0))

\* lines 76-88 of is_url: what the parse result must show
ParsedAsUrl(parsed) ==
  /\ ~parsed.err
  /\ \/ parsed.netloc # << >>
     \/ (parsed.path # << >> /\ Contains(parsed.path, S_dot))

\* lines 67-74 of is_url: a common TLD and no '@'
HasCommonTld(text, low) ==
  /\ \E tld \in common_tlds :
       EndsWith(low, tld) \/ Contains(low, S_dot \o tld)
  /\ ~Contains(text, S_at)

\* is_url without the e-mail test of lines 52-54
IsUrlStripped_noEmailTest(text) ==
  IF URL_PATTERN(text) THEN TRUE
  ELSE IF URL_PATTERN_SIMPLE(text) THEN TRUE
  ELSE IF StartsWith(Lower(text), S_www) THEN TRUE
  ELSE IF Let(Lower(text), LAMBDA low : HasCommonTld(text, low)) THEN TRUE
  ELSE Let(urlparse(IF Contains(text, S_sep) THEN text ELSE S_httpSep \o text),
           ParsedAsUrl)

\* is_url after text = text.strip()
IsUrlStripped(text) ==
  IF is_email(text) THEN FALSE
  ELSE IF URL_PATTERN(text) THEN TRUE
  ELSE IF URL_PATTERN_SIMPLE(text) THEN TRUE
  ELSE IF StartsWith(Lower(text), S_www) THEN TRUE
  ELSE IF Let(Lower(text), LAMBDA low : HasCommonTld(text, low)) THEN TRUE
  ELSE Let(urlparse(IF Contains(text, S_sep) THEN text ELSE S_httpSep \o text),
           ParsedAsUrl)

is_url(text0) ==
  IF text0 = << >> THEN FALSE ELSE Let(Strip(text0), IsUrlStripped)

\* normalize_url after url = url.strip()
NormalizeStripped(url) ==
  IF url = << >> THEN url
  ELSE IF is_email(url) THEN url
  ELSE IF Contains(url, S_sep) THEN url
  ELSE IF is_url(url) THEN S_httpSep \o url
  ELSE url

normalize_url(url0) == Let(Strip(url0), NormalizeStripped)

\* validate_and_classify after text = text.strip()
ClassifyStripped(text) ==
  IF is_email(text)
    THEN [ is_valid |-> TRUE, type |-> "email", normalized |-> Lower(text) ]
  ELSE IF is_url(text)
    THEN [ is_valid |-> TRUE, type |-> "url",
           normalized |-> Lower(normalize_url(text)) ]
  ELSE [ is_valid |-> FALSE, type |-> "invalid", normalized |-> text ]

validate_and_classify(text0) ==
  IF text0 = << >> \/ Strip(text0) = << >>
    THEN [ is_valid |-> FALSE, type |-> "invalid", normalized |-> text0 ]
    ELSE Let(Strip(text0), ClassifyStripped)

----------------------------------------------------------------------------
(* Bounds of the model and the sampled inputs.                             *)

\* number of operations (requests, or direct cache calls) in one run
MaxOps == 3

\* Python's None for a value that is otherwise a record, and the wrapping of
\* a present value
None == << >>
Some(v) == << v >>

\* a flag that is None, False or True
PyNone  == "None"
PyFalse == "False"
PyTrue  == "True"

\* "age_days": None
NoAge == -1

\* raw "url" values sent to /predict
T_empty      == << >>
T_blank      == << " ", " " >>
T_mailinator == << "u", "s", "e", "r", "@", "m", "a", "i", "l", "i", "n", "a", "t", "o", "r", ".", "c", "o", "m" >>
T_gmail      == << "u", "s", "e", "r", "@", "g", "m", "a", "i", "l", ".", "c", "o", "m" >>
T_mailUpper  == << " ", "U", "s", "e", "r", "@", "M", "a", "i", "l", "i", "n", "a", "t", "o", "r", ".", "C", "O", "M" >>
T_localPart  == << "m", "a", "i", "l", "i", "n", "a", "t", "o", "r", "@", "g", "m", "a", "i", "l", ".", "c", "o", "m" >>
T_url        == << "h", "t", "t", "p", ":", "/", "/", "a", ".", "t", "k", "/", "l", "o", "g", "i", "n" >>
T_urlBare    == << "A", ".", "t", "k", "/", "l", "o", "g", "i", "n", " " >>
T_path       == << "/", "a", "b", "c" >>
T_bracket    == << "h", "t", "t", "p", ":", "/", "/", "[", "a" >>

Inputs ==
  { T_empty, T_blank, T_mailinator, T_gmail, T_mailUpper, T_localPart,
    T_url, T_urlBare, T_path, T_bracket }

\* request bodies: not JSON at all (get_json raises), JSON that is falsy
\* (null, {}), an object without "url", an object whose "url" is not a
\* string (null, number), an object with a string "url"
Bodies ==
  { [ kind |-> k, url |-> << >> ] : k \in { "notjson", "empty", "nourl", "nonstr" } }
    \cup { [ kind |-> "text", url |-> t ] : t \in Inputs }

\* str.strip() and url_validator.validate_and_classify on the sampled
\* inputs, tabulated once
Stripped == [ t \in Inputs |-> Strip(t) ]

Classified == [ t \in { Strip(u) : u \in Inputs } |-> validate_and_classify(t) ]

Keys ==
  Let(Classified, LAMBDA C : { C[t].normalized : t \in { u \in DOMAIN C : C[u].is_valid } })

\* predict_proba of the positive class, in hundredths
ProbaLevels == { 0, 20, 50, 80, 93, 96, 100 }

\* confidences handed directly to the cache
ConfLevels == { 15, 99 }

----------------------------------------------------------------------------
(* backend/ml_model.py : PhishingURLDetector.predict                       *)

\* model.predict is the arg-max of predict_proba (class 0 on a tie); the
\* confidence is the probability of the predicted class
ml_predict(p1) ==
  LET p0 == 100 - p1
      is_phishing == p1 > p0
  IN  [ is_phishing |-> is_phishing,
        confidence  |-> IF is_phishing THEN p1 ELSE p0 ]

----------------------------------------------------------------------------
(* backend/ml_model.py : PhishingURLDetector.extract_features.  The        *)
(* feature vector is a sequence; the two ratios are kept as pairs          *)
(* << numerator, denominator >>.                                           *)

suspicious_keywords ==
  { << "l", "o", "g", "i", "n" >>,
    << "v", "e", "r", "i", "f", "y" >>,
    << "b", "a", "n", "k" >>,
    << "s", "e", "c", "u", "r", "e" >>,
    << "a", "c", "c", "o", "u", "n", "t" >>,
    << "u", "p", "d", "a", "t", "e" >>,
    << "c", "o", "n", "f", "i", "r", "m" >>,
    << "s", "u", "s", "p", "e", "n", "d" >>,
    << "c", "l", "i", "c", "k" >>,
    << "h", "e", "r", "e" >>,
    << "f", "r", "e", "e" >>,
    << "w", "i", "n" >>,
    << "p", "r", "i", "z", "e" >>,
    << "u", "r", "g", "e", "n", "t" >>,
    << "l", "i", "m", "i", "t", "e", "d" >>,
    << "p", "a", "s", "s", "w", "o", "r", "d" >>,
    << "r", "e", "s", "e", "t" >>,
    << "u", "n", "l", "o", "c", "k" >>,
    << "a", "c", "t", "i", "v", "a", "t", "e" >>,
    << "v", "a", "l", "i", "d", "a", "t", "e" >>,
    << "s", "e", "c", "u", "r", "i", "t", "y" >>,
    << "a", "l", "e", "r", "t" >>,
    << "w", "a", "r", "n", "i", "n", "g" >>,
    << "e", "x", "p", "i", "r", "e", "d" >>,
    << "l", "o", "c", "k", "e", "d" >> }

url_shorteners ==
  { << "b", "i", "t", ".", "l", "y" >>,
    << "t", "i", "n", "y", "u", "r", "l" >>,
    << "g", "o", "o", ".", "g", "l" >>,
    << "t", ".", "c", "o" >>,
    << "o", "w", ".", "l", "y" >> }

suspicious_path_patterns ==
  { << "/", "l", "o", "g", "i", "n" >>,
    << "/", "v", "e", "r", "i", "f", "y" >>,
    << "/", "s", "e", "c", "u", "r", "e" >>,
    << "/", "a", "c", "c", "o", "u", "n", "t" >>,
    << "/", "u", "p", "d", "a", "t", "e" >> }

suspicious_tlds ==
  { << ".", "t", "k" >>,
    << ".", "m", "l" >>,
    << ".", "g", "a" >>,
    << ".", "c", "f" >>,
    << ".", "g", "q" >>,
    << ".", "x", "y", "z" >>,
    << ".", "t", "o", "p" >>,
    << ".", "c", "l", "i", "c", "k" >> }

common_domains ==
  { << "g", "o", "o", "g", "l", "e" >>,
    << "f", "a", "c", "e", "b", "o", "o", "k" >>,
    << "a", "m", "a", "z", "o", "n" >>,
    << "m", "i", "c", "r", "o", "s", "o", "f", "t" >>,
    << "a", "p", "p", "l", "e" >>,
    << "p", "a", "y", "p", "a", "l" >>,
    << "n", "e", "t", "f", "l", "i", "x" >>,
    << "t", "w", "i", "t", "t", "e", "r" >>,
    << "i", "n", "s", "t", "a", "g", "r", "a", "m" >>,
    << "l", "i", "n", "k", "e", "d", "i", "n" >>,
    << "e", "b", "a", "y" >>,
    << "y", "a", "h", "o", "o" >> }

typosquatting_patterns ==
  { << "g", "o", "0", "g", "l", "e" >>,
    << "g", "0", "0", "g", "l", "e" >>,
    << "f", "a", "c", "e", "b", "0", "0", "k" >>,
    << "a", "m", "a", "z", "0", "n" >>,
    << "m", "i", "c", "r", "0", "s", "o", "f", "t" >>,
    << "p", "a", "y", "p", "a", "1" >>,
    << "a", "p", "p", "1", "e" >>,
    << "t", "w", "1", "t", "t", "e", "r" >>,
    << "1", "n", "s", "t", "a", "g", "r", "a", "m" >> }

S_https    == << "h", "t", "t", "p", "s" >>
S_httpsSep == << "h", "t", "t", "p", "s", ":", "/", "/" >>

DigitSeq == << "0","1","2","3","4","5","6","7","8","9" >>

\* 1 if ... else 0
Flag(b) == IF b THEN 1 ELSE 0

\* any(k in s for k in subs)
AnyContained(s, subs) == Let(s, LAMBDA t : \E k \in subs : Contains(t, k))

\* sum(1 for k in subs if k in s)
CountContained(s, subs) ==
  Let(s, LAMBDA t : Cardinality({ k \in subs : Contains(t, k) }))

\* _normalize_url
ml_normalize_url(url) == IF Contains(url, S_sep) THEN url ELSE S_httpSep \o url

\* _safe_urlparse: None when urlparse raises
safe_urlparse(url) ==
  Let(urlparse(ml_normalize_url(url)), LAMBDA p : IF p.err THEN None ELSE Some(p))

\* parsed if parsed is not None else urlparse(self._normalize_url(url)):
\* the second parse raises as the first did (err)
Reparse(parsed, url) ==
  IF parsed # None THEN parsed[1] ELSE urlparse(ml_normalize_url(url))

\* int(port) of a string of ASCII digits
RECURSIVE DecValue(_)
DecValue(digits) ==
  Let(digits, LAMBDA d :
    IF d = << >> THEN 0
    ELSE 10 * DecValue(SubSeq(d, 1, Len(d) - 1))
           + ((CHOOSE i \in DOMAIN DigitSeq : DigitSeq[i] = d[Len(d)]) - 1))

\* _hostinfo[1]: the text after the first colon of the host part ("" when
\* there is none)
HostInfoPort(netloc) ==
  Let(After(netloc, RFind(netloc, S_at), netloc), LAMBDA hostinfo :
    IF Contains(hostinfo, << "[" >>)
      THEN Let(After(hostinfo, Find(hostinfo, << "[" >>, 0), << >>), LAMBDA bracketed :
             Let(After(bracketed, Find(bracketed, << "]" >>, 0), << >>), LAMBDA rest :
               After(rest, Find(rest, S_colon, 0), << >>)))
      ELSE After(hostinfo, Find(hostinfo, S_colon, 0), << >>))

\* ParseResult.port: None, the port number, or ValueError (raised)
PortOf(netloc) ==
  Let(HostInfoPort(netloc), LAMBDA port :
    IF port = << >> THEN [ raised |-> FALSE, value |-> None ]
    ELSE IF \E k \in DOMAIN port : port[k] \notin Digits
      THEN [ raised |-> TRUE, value |-> None ]
    ELSE IF DecValue(port) > 65535
      THEN [ raised |-> TRUE, value |-> None ]
    ELSE [ raised |-> FALSE, value |-> Some(DecValue(port)) ])

\* n zero slots
Zeros(n) == [ i \in 1 .. n |-> 0 ]

\* 1) lines 48-56
LexicalFeatures(url) ==
  << Len(url), Count(url, "."), Count(url, "-"), Count(url, "_"),
     Count(url, "/"), Count(url, "?"), Count(url, "="), Count(url, "@"),
     Count(url, "&") >>

\* 2) lines 59-61
ProtocolFeatures(url, url_lower) ==
  << Flag(StartsWith(url, S_httpsSep)), Flag(StartsWith(url, S_httpSep)),
     Flag(Contains(url_lower, S_https)) >>

\* 3) lines 64-72
KeywordFeatures(url_lower) == << CountContained(url_lower, suspicious_keywords) >>

\* 4) lines 75-87
PatternFeatures(url, url_lower, parsed) ==
  << Flag(AnyContained(url_lower, url_shorteners)),
     Flag(CountContained(url_lower, suspicious_keywords) > 2 /\ Count(url, "-") > 2),
     IF parsed # None
       THEN Flag(AnyContained(Lower(parsed[1].path), suspicious_path_patterns))
       ELSE 0 >>

\* line 92: parsed2.netloc or (parsed2.path.split('/')[0] if parsed2.path else '')
DomainOf(p) ==
  IF p.netloc # << >> THEN p.netloc
  ELSE Before(p.path, Find(p.path, S_slash, 0), p.path)

\* re.search(ip_pattern, domain)
HasDottedQuad(domain) ==
  Let(domain, LAMBDA d : \E i \in 0 .. Len(d) : DottedQuad(d, { i }) # {})

\* lines 95-119 for the domain
DomainSlots(domain, domain_lower) ==
  << Len(domain), Count(domain, "."), Flag(HasDottedQuad(domain)),
     Flag(AnyContained(domain_lower, suspicious_tlds)),
     Flag(AnyContained(domain_lower, common_domains)),
     Flag(AnyContained(domain_lower, typosquatting_patterns)),
     Flag(Count(domain, ".") - 1 > 2),
     Flag(Contains(domain, << "-" >>)) >>

\* DomainFeatures whose except clause appends one zero too few
DomainFeatures_shortDefault(parsed, url) ==
  Let(Reparse(parsed, url), LAMBDA p :
    IF p.err THEN Zeros(7)
    ELSE Let(DomainOf(p), LAMBDA domain : DomainSlots(domain, Lower(domain))))

\* 5) lines 90-121
DomainFeatures(parsed, url) ==
  Let(Reparse(parsed, url), LAMBDA p :
    IF p.err THEN Zeros(8)
    ELSE Let(DomainOf(p), LAMBDA domain : DomainSlots(domain, Lower(domain))))

\* 6) lines 124-130
PathFeatures(parsed, url) ==
  Let(Reparse(parsed, url), LAMBDA p :
    IF p.err THEN Zeros(2) ELSE << Len(p.path), Count(p.path, "/") >>)

\* 7) lines 133-139
QueryFeatures(parsed, url) ==
  Let(Reparse(parsed, url), LAMBDA p :
    IF p.err THEN Zeros(2) ELSE << Len(p.query), Count(p.query, "&") >>)

\* line 145: 1 if port and port not in [80, 443] else 0
PortSlot(port) ==
  IF port.raised THEN Zeros(1)
  ELSE << Flag(port.value # None /\ port.value[1] # 0
                 /\ port.value[1] \notin { 80, 443 }) >>

\* 8) lines 142-147
PortFeature(parsed, url) ==
  Let(Reparse(parsed, url), LAMBDA p :
    IF p.err THEN Zeros(1) ELSE Let(PortOf(p.netloc), PortSlot))

\* 9) lines 150-154
RatioFeatures(url) ==
  Let(url, LAMBDA u :
    Let(IF Len(u) > 0 THEN Len(u) ELSE 1, LAMBDA length :
      << << Cardinality({ i \in DOMAIN u : u[i] \in Digits }), length >>,
         << Cardinality({ i \in DOMAIN u : u[i] \in Letters }), length >> >>))

\* the groups after url_lower and parsed are there
FeatureGroups(url, url_lower, parsed) ==
  LexicalFeatures(url) \o ProtocolFeatures(url, url_lower)
    \o KeywordFeatures(url_lower) \o PatternFeatures(url, url_lower, parsed)
    \o DomainFeatures(parsed, url) \o PathFeatures(parsed, url)
    \o QueryFeatures(parsed, url) \o PortFeature(parsed, url)
    \o RatioFeatures(url)

\* extract_features(url): no statement outside the try blocks can raise on
\* a string
extract_features(url0) ==
  Let(url0, LAMBDA url :
    Let2(Lower(url), safe_urlparse(url), LAMBDA url_lower, parsed :
      [ raised |-> FALSE, value |-> FeatureGroups(url, url_lower, parsed) ]))

----------------------------------------------------------------------------
(* backend/threat_intel.py : get_threat_intel                              *)

\* results of get_domain_age_days
WhoisResults ==
  { [ success |-> FALSE, age_days |-> NoAge ] }
    \cup { [ success |-> TRUE, age_days |-> a ] : a \in { 0, 29, 30, 400 } }

\* results of check_phishtank
PhishTankResults ==
  { [ enabled |-> FALSE, verified_phish |-> PyNone ],
    [ enabled |-> TRUE,  verified_phish |-> PyNone ],
    [ enabled |-> TRUE,  verified_phish |-> PyFalse ],
    [ enabled |-> TRUE,  verified_phish |-> PyTrue ] }

\* results of check_google_safe_browsing
SafeBrowsingResults ==
  { [ enabled |-> FALSE, unsafe |-> PyNone ],
    [ enabled |-> TRUE,  unsafe |-> PyNone ],
    [ enabled |-> TRUE,  unsafe |-> PyFalse ],
    [ enabled |-> TRUE,  unsafe |-> PyTrue ] }

\* Python truthiness of a flag that is None, False or True
Truthy(v) == v = PyTrue

\* get_threat_intel counting a domain of exactly 30 days as very young
get_threat_intel_inclusive(whois_info, phishtank_info, gsb_info) ==
  LET listed_blacklist ==
        \/ (phishtank_info.enabled /\ Truthy(phishtank_info.verified_phish))
        \/ (gsb_info.enabled /\ Truthy(gsb_info.unsafe))
      very_young_domain ==
        /\ whois_info.success
        /\ whois_info.age_days # NoAge
        /\ whois_info.age_days >= 0
        /\ whois_info.age_days <= 30
  IN  [ whois |-> whois_info,
        phishtank |-> phishtank_info,
        google_safe_browsing |-> gsb_info,
        flags |-> [ listed_in_blacklist |-> listed_blacklist,
                    very_young_domain   |-> very_young_domain ] ]

get_threat_intel(whois_info, phishtank_info, gsb_info) ==
  LET listed_blacklist ==
        \/ (phishtank_info.enabled /\ Truthy(phishtank_info.verified_phish))
        \/ (gsb_info.enabled /\ Truthy(gsb_info.unsafe))
      very_young_domain ==
        /\ whois_info.success
        /\ whois_info.age_days # NoAge
        /\ whois_info.age_days >= 0
        /\ whois_info.age_days < 30
  IN  [ whois |-> whois_info,
        phishtank |-> phishtank_info,
        google_safe_browsing |-> gsb_info,
        flags |-> [ listed_in_blacklist |-> listed_blacklist,
                    very_young_domain   |-> very_young_domain ] ]

\* provider outcomes drawn by the request handler: every combination of the
\* two flags, reached through different providers
IntelSamples ==
  { get_threat_intel(w, p, g) :
      w \in { [ success |-> FALSE, age_days |-> NoAge ],
              [ success |-> TRUE,  age_days |-> 29 ] },
      p \in { [ enabled |-> FALSE, verified_phish |-> PyNone ],
              [ enabled |-> TRUE,  verified_phish |-> PyTrue ] },
      g \in { [ enabled |-> FALSE, unsafe |-> PyNone ] } }

----------------------------------------------------------------------------
(* backend/threat_intel.py : the providers.  A provider call yields a run: *)
(* raised tells whether an exception left the function, value is the       *)
(* dictionary it returned, calls the external calls it made, in order.     *)

S_www_a_tk == << "w", "w", "w", ".", "a", ".", "t", "k" >>
S_http_port == << "h", "t", "t", "p", ":", "/", "/", ":", "8", "0" >>

\* the URLs handed to get_threat_intel: with a path, without a host, and
\* with www. and a port but no scheme
IntelUrls == { T_url, S_http_port, S_www_a_tk \o << ":", "8", "0" >> }

\* lines 44-51 of _extract_domain
HostOf(parsed) ==
  Let(IF parsed.netloc # << >> THEN parsed.netloc ELSE parsed.path, LAMBDA host :
    Let(IF Contains(host, S_colon) THEN Slice(host, 0, Find(host, S_colon, 0))
        ELSE host,
        LAMBDA h :
          Let(IF StartsWith(h, S_www) THEN SliceFrom(h, 4) ELSE h, LAMBDA bare :
            IF bare = << >> THEN None ELSE Some(bare))))

\* _extract_domain after url = url.strip()
ExtractStripped(url) ==
  Let(urlparse(IF Contains(url, S_sep) THEN url ELSE S_httpSep \o url),
      LAMBDA parsed : IF parsed.err THEN None ELSE HostOf(parsed))

\* _extract_domain(url): Some(domain), or None
extract_domain(url0) ==
  IF url0 = << >> THEN None ELSE Let(Strip(url0), ExtractStripped)

\* now - creation of the sampled WHOIS answers, in hours (negative: a
\* creation date in the future)
AgeHours == { -25, 0, 719, 720 }

\* what whois.whois(domain) does: it raises, or returns an object whose
\* creation_date is missing or None, an empty list, a string, a datetime,
\* or a list that starts with a datetime
WhoisAnswers ==
  { [ kind |-> k, hours |-> 0 ] : k \in { "raises", "none", "empty_list", "text" } }
    \cup { [ kind |-> k, hours |-> h ] : k \in { "datetime", "list" }, h \in AgeHours }

\* the environment of get_domain_age_days: whether python-whois could be
\* imported, whether socket.gethostbyname succeeds, and the WHOIS answer
AgeEnvs == [ whois_lib : BOOLEAN, resolves : BOOLEAN, whois : WhoisAnswers ]

E_no_domain  == "Could not extract domain"
E_no_library == "python-whois library not available"
E_no_dns     == "Domain does not resolve"
E_no_date    == "No valid creation_date in WHOIS"
E_exception  == "str(e)"

\* the result dictionary of get_domain_age_days
AgeResult(domain, success, creation_date, age_days, error) ==
  [ success |-> success, domain |-> domain, creation_date |-> creation_date,
    age_days |-> age_days, error |-> error ]

\* timedelta.days: whole days, rounded towards minus infinity
DaysOf(hours) == hours \div 24

\* lines 95-119: the WHOIS lookup and the age
WhoisLookup(domain, answer, calls) ==
  IF answer.kind = "raises"
    THEN [ raised |-> FALSE, calls |-> calls,
           value |-> AgeResult(domain, FALSE, None, NoAge, Some(E_exception)) ]
  ELSE IF answer.kind \notin { "datetime", "list" }
    THEN [ raised |-> FALSE, calls |-> calls,
           value |-> AgeResult(domain, FALSE, None, NoAge, Some(E_no_date)) ]
  ELSE [ raised |-> FALSE, calls |-> calls,
         value |-> AgeResult(domain, TRUE, Some(answer.hours),
                             Max({ DaysOf(answer.hours), 0 }), None) ]

\* AgeOfDomain asking the registry without the DNS check
AgeOfDomain_noDnsCheck(domain, env) ==
  IF domain = None
    THEN [ raised |-> FALSE, calls |-> << >>,
           value |-> AgeResult(None, FALSE, None, NoAge, Some(E_no_domain)) ]
  ELSE IF ~env.whois_lib
    THEN [ raised |-> FALSE, calls |-> << >>,
           value |-> AgeResult(domain, FALSE, None, NoAge, Some(E_no_library)) ]
  ELSE WhoisLookup(domain, env.whois, << "whois" >>)

\* get_domain_age_days once the domain is extracted
AgeOfDomain(domain, env) ==
  IF domain = None
    THEN [ raised |-> FALSE, calls |-> << >>,
           value |-> AgeResult(None, FALSE, None, NoAge, Some(E_no_domain)) ]
  ELSE IF ~env.whois_lib
    THEN [ raised |-> FALSE, calls |-> << >>,
           value |-> AgeResult(domain, FALSE, None, NoAge, Some(E_no_library)) ]
  ELSE IF ~env.resolves
    THEN [ raised |-> FALSE, calls |-> << "gethostbyname" >>,
           value |-> AgeResult(domain, FALSE, None, NoAge, Some(E_no_dns)) ]
  ELSE WhoisLookup(domain, env.whois, << "gethostbyname", "whois" >>)

get_domain_age_days(url, env) ==
  Let(extract_domain(url), LAMBDA domain : AgeOfDomain(domain, env))

E_no_phishtank_key == "PHISHTANK_API_KEY not set"
E_no_gsb_key       == "GSB_API_KEY not set"

\* what the PhishTank request does: requests.post raises (time-out, no
\* connection), raise_for_status raises, resp.json() raises, the JSON is not
\* an object, or it is an object with results.in_database and results.valid
PhishTankReplies ==
  { [ kind |-> k, in_database |-> FALSE, valid |-> FALSE ] :
      k \in { "post_raises", "status_raises", "not_an_object" } }
    \cup { [ kind |-> "ok", in_database |-> d, valid |-> v ] : d, v \in BOOLEAN }

\* the environment of check_phishtank: whether PHISHTANK_API_KEY is set to a
\* non-empty value, and the reply
PhishTankEnvs == [ api_key : BOOLEAN, reply : PhishTankReplies ]

PyBool(b) == IF b THEN PyTrue ELSE PyFalse

\* the result dictionary of check_phishtank
PhishTankResult(enabled, listed, verified_phish, error) ==
  [ enabled |-> enabled, listed |-> listed, verified_phish |-> verified_phish,
    error |-> error ]

\* check_phishtank letting the exceptions of the request through
check_phishtank_noCatch(env) ==
  IF ~env.api_key
    THEN [ raised |-> FALSE, calls |-> << >>,
           value |-> PhishTankResult(FALSE, PyNone, PyNone, Some(E_no_phishtank_key)) ]
  ELSE IF env.reply.kind # "ok"
    THEN [ raised |-> TRUE, calls |-> << "phishtank" >>,
           value |-> PhishTankResult(TRUE, PyNone, PyNone, None) ]
  ELSE [ raised |-> FALSE, calls |-> << "phishtank" >>,
         value |-> PhishTankResult(TRUE, PyBool(env.reply.in_database),
                     IF env.reply.in_database THEN PyBool(env.reply.valid)
                     ELSE PyFalse,
                     None) ]

check_phishtank(env) ==
  IF ~env.api_key
    THEN [ raised |-> FALSE, calls |-> << >>,
           value |-> PhishTankResult(FALSE, PyNone, PyNone, Some(E_no_phishtank_key)) ]
  ELSE IF env.reply.kind # "ok"
    THEN [ raised |-> FALSE, calls |-> << "phishtank" >>,
           value |-> PhishTankResult(TRUE, PyNone, PyNone, Some(E_exception)) ]
  ELSE [ raised |-> FALSE, calls |-> << "phishtank" >>,
         value |-> PhishTankResult(TRUE, PyBool(env.reply.in_database),
                     IF env.reply.in_database THEN PyBool(env.reply.valid)
                     ELSE PyFalse,
                     None) ]

\* what the Safe Browsing request does: as for PhishTank; an entry of
\* "matches" that is not an object makes m.get raise.  matches lists the
\* threatType of every match ("" when a match has none)
SafeBrowsingReplies ==
  { [ kind |-> k, matches |-> << >> ] :
      k \in { "post_raises", "json_raises", "bad_match" } }
    \cup { [ kind |-> "ok", matches |-> m ] :
             m \in { << >>, << "" >>,
                     << "MALWARE", "SOCIAL_ENGINEERING", "MALWARE" >> } }

SafeBrowsingEnvs == [ api_key : BOOLEAN, reply : SafeBrowsingReplies ]

\* the result dictionary of check_google_safe_browsing
SafeBrowsingResult(enabled, unsafe, threat_types, error) ==
  [ enabled |-> enabled, unsafe |-> unsafe, threat_types |-> threat_types,
    error |-> error ]

check_google_safe_browsing(env) ==
  IF ~env.api_key
    THEN [ raised |-> FALSE, calls |-> << >>,
           value |-> SafeBrowsingResult(FALSE, PyNone, None, Some(E_no_gsb_key)) ]
  ELSE IF env.reply.kind # "ok"
    THEN [ raised |-> FALSE, calls |-> << "safe_browsing" >>,
           value |-> SafeBrowsingResult(TRUE, PyNone, None, Some(E_exception)) ]
  ELSE IF env.reply.matches # << >>
    THEN [ raised |-> FALSE, calls |-> << "safe_browsing" >>,
           value |-> SafeBrowsingResult(TRUE, PyTrue,
                       Some(Range(env.reply.matches) \ { "" }), None) ]
  ELSE [ raised |-> FALSE, calls |-> << "safe_browsing" >>,
         value |-> SafeBrowsingResult(TRUE, PyFalse, Some({}), None) ]

\* the environment of one get_threat_intel call
IntelEnvs == [ age : AgeEnvs, phishtank : PhishTankEnvs, gsb : SafeBrowsingEnvs ]

\* a call that an exception left
Aborted(calls) == [ raised |-> TRUE, calls |-> calls, value |-> None ]

\* lines 251-276 after whois_info is there
GatherBlacklists(w, env) ==
  Let(check_phishtank(env.phishtank), LAMBDA p :
    IF p.raised THEN Aborted(w.calls \o p.calls)
    ELSE Let(check_google_safe_browsing(env.gsb), LAMBDA g :
           IF g.raised THEN Aborted(w.calls \o p.calls \o g.calls)
           ELSE [ raised |-> FALSE, calls |-> w.calls \o p.calls \o g.calls,
                  value |-> Some(get_threat_intel(w.value, p.value, g.value)) ]))

\* get_threat_intel(url) in an environment: the three provider calls in
\* order, then the flags
Gather(url, env) ==
  Let(get_domain_age_days(url, env.age), LAMBDA w :
    IF w.raised THEN Aborted(w.calls) ELSE GatherBlacklists(w, env))

----------------------------------------------------------------------------
(* State.                                                                  *)

VARIABLES
  urls,      \* the rows of table urls (backend/database.py)
  seq,       \* the AUTOINCREMENT counter of table urls
  clock,     \* number of operations so far; the value of datetime.now()
  response,  \* the response of the last /predict request
  last,      \* what the last /predict request did (history of the handler)
  lastPut,   \* per key, the arguments of the last successful save_url_result
  got,       \* the key and the result of the last direct get_url_result
  arg,       \* the arguments of a function called on its own
  ret,       \* what that call returned (None before the call)
  detector,  \* the PhishingURLDetector object: None before it is constructed
  model_file, \* the content of phishing_model.pkl
  threads    \* the /predict requests being handled at the same time

vars == << urls, seq, clock, response, last, lastPut, got, arg, ret,
           detector, model_file, threads >>

\* the variables of a function call, and of the classifier object
callVars == << arg, ret >>
detectorVars == << detector, model_file >>
serviceVars == << urls, seq, response, last, lastPut, got >>

----------------------------------------------------------------------------
(* backend/database.py : Database                                          *)

\* CHECK(url_type IN ('url', 'email'))
UrlTypes == { "url", "email" }

\* int(is_phishing)
BoolToInt(b) == IF b THEN 1 ELSE 0

\* the rows a  SELECT ... WHERE url = ?  can return first (fetchone)
RowsOf(table, url) == { r \in table : r.url = url }

\* RowResult reading is_phishing from the confidence column
RowResult_wrongColumn(row) ==
  [ url |-> row.url, url_type |-> row.url_type,
    is_phishing |-> (row.confidence # 0),
    confidence |-> row.confidence, created_at |-> row.created_at ]

\* get_url_result : the dictionary built from a fetched row
RowResult(row) ==
  [ url |-> row.url, url_type |-> row.url_type,
    is_phishing |-> (row.is_phishing # 0),
    confidence |-> row.confidence, created_at |-> row.created_at ]

\* get_url_result : every value the call can return
get_url_result(table, url) ==
  IF RowsOf(table, url) = {} THEN { None }
  ELSE { Some(RowResult(r)) : r \in RowsOf(table, url) }

\* a plain INSERT into a table without the UNIQUE(url) constraint
InsertOrReplace_plainInsert(table, row) == table \cup { row }

\* INSERT OR REPLACE under UNIQUE(url): the conflicting rows are deleted and
\* the new row is inserted with a fresh id
InsertOrReplace(table, row) ==
  (table \ RowsOf(table, row.url)) \cup { row }

\* save_url_result with INSERT OR IGNORE: a row that exists is kept
save_url_result_firstWins(table, counter, now, url, url_type, is_phishing, confidence, io_error) ==
  LET row == [ id |-> counter + 1, url |-> url, url_type |-> url_type,
               is_phishing |-> BoolToInt(is_phishing),
               confidence |-> confidence, created_at |-> now ]
  IN  IF io_error \/ url_type \notin UrlTypes
        THEN [ ok |-> FALSE, urls |-> table, seq |-> counter ]
        ELSE [ ok |-> TRUE,
               urls |-> IF RowsOf(table, url) = {} THEN table \cup { row } ELSE table,
               seq |-> counter + 1 ]

\* save_url_result : a failing statement (CHECK violation, or an sqlite
\* error io_error raised by execute/commit) is caught and reported as False
save_url_result(table, counter, now, url, url_type, is_phishing, confidence, io_error) ==
  LET row == [ id |-> counter + 1, url |-> url, url_type |-> url_type,
               is_phishing |-> BoolToInt(is_phishing),
               confidence |-> confidence, created_at |-> now ]
  IN  IF io_error \/ url_type \notin UrlTypes
        THEN [ ok |-> FALSE, urls |-> table, seq |-> counter ]
        ELSE [ ok |-> TRUE, urls |-> InsertOrReplace(table, row),
               seq |-> counter + 1 ]

----------------------------------------------------------------------------
(* backend/app.py : predict                                                *)

suspicious_domains ==
  { << "t", "e", "m", "p", "m", "a", "i", "l" >>,
    << "g", "u", "e", "r", "r", "i", "l", "l", "a", "m", "a", "i", "l" >>,
    << "1", "0", "m", "i", "n", "u", "t", "e", "m", "a", "i", "l" >>,
    << "t", "h", "r", "o", "w", "a", "w", "a", "y" >>,
    << "m", "a", "i", "l", "i", "n", "a", "t", "o", "r" >>,
    << "t", "r", "a", "s", "h", "m", "a", "i", "l" >> }

\* confidence of the e-mail rule
EmailPhishingConfidence == 85
EmailSafeConfidence == 15

\* constants of the fusion rules
BlacklistConfidence == 99
YoungDomainBoost == 5
YoungDomainCap == 98

\* where an exception can be raised in the handler: nowhere, in
\* db.get_url_result, in ml_detector.predict, in db.save_url_result before
\* its try block (get_connection, cursor), or inside that try block
Faults == { "none", "lookup", "predict", "save_open", "save_exec" }

\* no response has been built
NoResponse ==
  [ verdict |-> "NONE", url_type |-> "invalid", confidence |-> 0,
    from_cache |-> FALSE, threat_intel |-> None, status |-> 0 ]

InvalidResponse ==
  [ verdict |-> "INVALID", url_type |-> "invalid", confidence |-> 0,
    from_cache |-> FALSE, threat_intel |-> None, status |-> 400 ]

ErrorResponse ==
  [ verdict |-> "ERROR", url_type |-> "invalid", confidence |-> 0,
    from_cache |-> FALSE, threat_intel |-> None, status |-> 500 ]

Verdict(is_phishing) == IF is_phishing THEN "PHISHING" ELSE "SAFE"

\* normalized_input.split('@')[1] if '@' in normalized_input else ''
EmailDomain(normalized) ==
  IF ~Contains(normalized, S_at) THEN << >>
  ELSE Let(SliceFrom(normalized, Find(normalized, S_at, 0) + 1), LAMBDA rest :
         IF Contains(rest, S_at) THEN Slice(rest, 0, Find(rest, S_at, 0))
         ELSE rest)

\* the e-mail decision matching the provider list against the whole address
EmailDecision_wholeAddress(normalized) ==
  Let(Let(Lower(normalized), LAMBDA address :
        \E sd \in suspicious_domains : Contains(address, sd)),
      LAMBDA is_phishing :
        [ is_phishing |-> is_phishing,
          confidence  |-> IF is_phishing THEN EmailPhishingConfidence
                          ELSE EmailSafeConfidence ])

\* lines 72-76: the e-mail decision
EmailDecision(normalized) ==
  Let(Let(Lower(EmailDomain(normalized)), LAMBDA domain :
        \E sd \in suspicious_domains : Contains(domain, sd)),
      LAMBDA is_phishing :
        [ is_phishing |-> is_phishing,
          confidence  |-> IF is_phishing THEN EmailPhishingConfidence
                          ELSE EmailSafeConfidence ])

\* Fuse without the forced verdict of the blacklist rule
Fuse_keepsVerdict(ml, flags) ==
  LET c1 == IF flags.listed_in_blacklist
              THEN Max({ ml.confidence, BlacklistConfidence })
              ELSE ml.confidence
  IN  [ is_phishing |-> ml.is_phishing, confidence |-> c1 ]

\* Fuse whose young-domain rule adds the boost without the cap
Fuse_noCap(ml, flags) ==
  LET is_phishing == IF flags.listed_in_blacklist THEN TRUE ELSE ml.is_phishing
      c1 == IF flags.listed_in_blacklist
              THEN Max({ ml.confidence, BlacklistConfidence })
              ELSE ml.confidence
  IN  [ is_phishing |-> is_phishing,
        confidence  |-> IF flags.very_young_domain /\ ~flags.listed_in_blacklist /\ is_phishing
                          THEN c1 + YoungDomainBoost ELSE c1 ]

\* Fuse whose young-domain rule does not ask for a phishing verdict
Fuse_boostsSafe(ml, flags) ==
  LET is_phishing == IF flags.listed_in_blacklist THEN TRUE ELSE ml.is_phishing
      c1 == IF flags.listed_in_blacklist
              THEN Max({ ml.confidence, BlacklistConfidence })
              ELSE ml.confidence
  IN  [ is_phishing |-> is_phishing,
        confidence  |-> IF flags.very_young_domain /\ ~flags.listed_in_blacklist
                          THEN Min({ c1 + YoungDomainBoost, YoungDomainCap }) ELSE c1 ]

\* Fuse whose young-domain rule takes the larger of boost and cap
Fuse_maxForMin(ml, flags) ==
  LET is_phishing == IF flags.listed_in_blacklist THEN TRUE ELSE ml.is_phishing
      c1 == IF flags.listed_in_blacklist
              THEN Max({ ml.confidence, BlacklistConfidence })
              ELSE ml.confidence
  IN  [ is_phishing |-> is_phishing,
        confidence  |-> IF flags.very_young_domain /\ ~flags.listed_in_blacklist /\ is_phishing
                          THEN Max({ c1 + YoungDomainBoost, YoungDomainCap }) ELSE c1 ]

\* lines 93-97: fusion of the classifier result with the threat flags
Fuse(ml, flags) ==
  LET is_phishing == IF flags.listed_in_blacklist THEN TRUE ELSE ml.is_phishing
      c1 == IF flags.listed_in_blacklist
              THEN Max({ ml.confidence, BlacklistConfidence })
              ELSE ml.confidence
      c2 == IF flags.very_young_domain /\ ~flags.listed_in_blacklist /\ is_phishing
              THEN Min({ c1 + YoungDomainBoost, YoungDomainCap })
              ELSE c1
  IN  [ is_phishing |-> is_phishing, confidence |-> c2 ]

\* the e-mail decision for every e-mail key, tabulated once
EmailDecided ==
  Let(Classified, LAMBDA C :
    [ k \in { C[t].normalized : t \in { u \in DOMAIN C : C[u].type = "email" } }
        |-> EmailDecision(k) ])

\* a request as the handler sees it: the body, data.get("url", "").strip()
\* (line 30), the result of validate_and_classify (line 37) and, for an
\* e-mail, the decision of lines 72-76
RequestOf(body) ==
  Let(Classified[Stripped[body.url]], LAMBDA v :
    [ body |-> body, input_text |-> Stripped[body.url], v |-> v,
      email |-> IF v.is_valid /\ v.type = "email"
                  THEN Some(EmailDecided[v.normalized]) ELSE None ])

\* the sampled requests, computed once
Requests == { RequestOf(body) : body \in Bodies }

\* the handler's outcome before anything has happened; raised names the call
\* whose exception reached the handler's except clause
Idle(table, counter) ==
  [ raised |-> "none", response |-> NoResponse,
    urls |-> table, seq |-> counter, calls |-> << >>,
    classified |-> None, cached |-> None, ml |-> None, intel |-> None,
    decision |-> None, saved |-> "none" ]

\* lines 77-86 and 99-109: write the decision to the cache and answer
SaveAndAnswer(out, now, v, d, ti, fault) ==
  LET out1 == [ out EXCEPT !.calls = Append(@, "save_url_result"),
                           !.decision = Some(d) ]
      sv == save_url_result(out.urls, out.seq, now, v.normalized, v.type,
                            d.is_phishing, d.confidence, fault = "save_exec")
  IN  IF fault = "save_open" THEN [ out1 EXCEPT !.raised = "save_url_result" ]
      ELSE [ out1 EXCEPT
               !.urls = sv.urls, !.seq = sv.seq,
               !.saved = IF sv.ok THEN "ok" ELSE "failed",
               !.response =
                 [ verdict |-> Verdict(d.is_phishing), url_type |-> v.type,
                   confidence |-> d.confidence, from_cache |-> FALSE,
                   threat_intel |-> ti, status |-> 200 ] ]

\* a cached answer that is not marked as coming from the cache
AnswerFromCache_unmarked(out, v, cached_result) ==
  [ out EXCEPT
      !.decision = Some([ is_phishing |-> cached_result.is_phishing,
                          confidence  |-> cached_result.confidence ]),
      !.response =
        [ verdict |-> Verdict(cached_result.is_phishing), url_type |-> v.type,
          confidence |-> cached_result.confidence, from_cache |-> FALSE,
          threat_intel |-> None, status |-> 200 ] ]

\* a cache hit that writes the row it found back to the cache
AnswerFromCache_rewrites(out, v, cached_result) ==
  [ out EXCEPT
      !.urls = InsertOrReplace(@, [ id |-> out.seq + 1, url |-> cached_result.url,
                                    url_type |-> cached_result.url_type,
                                    is_phishing |-> BoolToInt(cached_result.is_phishing),
                                    confidence |-> cached_result.confidence,
                                    created_at |-> cached_result.created_at ]),
      !.seq = @ + 1,
      !.decision = Some([ is_phishing |-> cached_result.is_phishing,
                          confidence  |-> cached_result.confidence ]),
      !.response =
        [ verdict |-> Verdict(cached_result.is_phishing), url_type |-> v.type,
          confidence |-> cached_result.confidence, from_cache |-> TRUE,
          threat_intel |-> None, status |-> 200 ] ]

\* lines 56-68: answer from the cache
AnswerFromCache(out, v, cached_result) ==
  [ out EXCEPT
      !.decision = Some([ is_phishing |-> cached_result.is_phishing,
                          confidence  |-> cached_result.confidence ]),
      !.response =
        [ verdict |-> Verdict(cached_result.is_phishing), url_type |-> v.type,
          confidence |-> cached_result.confidence, from_cache |-> TRUE,
          threat_intel |-> None, status |-> 200 ] ]

\* the URL path writing the classifier's output to the cache and answering
\* with the fused decision
UrlPath_cachesRaw(out, now, v, p1, intel, fault) ==
  LET out1 == [ out EXCEPT !.calls = Append(@, "predict") ]
      ml   == ml_predict(p1)
      out2 == [ out1 EXCEPT !.calls = Append(@, "get_threat_intel"),
                            !.ml = Some(ml), !.intel = Some(intel) ]
      d    == Fuse(ml, intel.flags)
      r    == SaveAndAnswer(out2, now, v, ml, Some(intel), fault)
  IN  IF fault = "predict" THEN [ out1 EXCEPT !.raised = "predict" ]
      ELSE IF r.raised # "none" THEN r
      ELSE [ r EXCEPT !.decision = Some(d),
                      !.response = [ @ EXCEPT !.verdict = Verdict(d.is_phishing),
                                              !.confidence = d.confidence ] ]

\* lines 88-109: the URL path
UrlPath(out, now, v, p1, intel, fault) ==
  LET out1 == [ out EXCEPT !.calls = Append(@, "predict") ]
      ml   == ml_predict(p1)
      out2 == [ out1 EXCEPT !.calls = Append(@, "get_threat_intel"),
                            !.ml = Some(ml), !.intel = Some(intel) ]
  IN  IF fault = "predict" THEN [ out1 EXCEPT !.raised = "predict" ]
      ELSE SaveAndAnswer(out2, now, v, Fuse(ml, intel.flags), Some(intel), fault)

\* lines 21-109: the body of the try block.  cached is the value returned by
\* db.get_url_result for the normalized input
Evaluate(table, counter, now, req, p1, intel, fault, cached) ==
  LET out0 == Idle(table, counter)
      body == req.body
      input_text == req.input_text
      v    == req.v
      out1 == [ out0 EXCEPT !.classified = Some(v) ]
      out2 == [ out1 EXCEPT !.calls = Append(@, "get_url_result") ]
      out3 == [ out2 EXCEPT !.cached = cached ]
  IN  IF body.kind = "notjson" THEN [ out0 EXCEPT !.raised = "get_json" ]
      ELSE IF body.kind = "empty" THEN [ out0 EXCEPT !.response = InvalidResponse ]
      ELSE IF body.kind = "nonstr" THEN [ out0 EXCEPT !.raised = "strip" ]
      ELSE IF input_text = << >> THEN [ out0 EXCEPT !.response = InvalidResponse ]
      ELSE IF ~v.is_valid THEN [ out1 EXCEPT !.response = InvalidResponse ]
      ELSE IF fault = "lookup" THEN [ out2 EXCEPT !.raised = "get_url_result" ]
      ELSE IF cached # None THEN AnswerFromCache(out3, v, cached[1])
      ELSE IF v.type = "email"
        THEN SaveAndAnswer(out3, now, v, req.email[1], None, fault)
      ELSE UrlPath(out3, now, v, p1, intel, fault)

\* the handler without its  except Exception  clause
predict_noHandler(table, counter, now, req, p1, intel, fault, cached) ==
  Evaluate(table, counter, now, req, p1, intel, fault, cached)

\* lines 20 and 111-118: the try block and its  except Exception  handler
predict(table, counter, now, req, p1, intel, fault, cached) ==
  Let(Evaluate(table, counter, now, req, p1, intel, fault, cached), LAMBDA out :
    IF out.raised # "none" THEN [ out EXCEPT !.response = ErrorResponse ] ELSE out)

\* the key under which a request body is looked up (the empty string when
\* the body carries no text)
KeyOf(req) == req.v.normalized

\* whether a request reaches the URL path (lines 88-109); only then are a
\* classifier output and a threat-intel outcome drawn
ReachesUrlPath(req, fault, cached) ==
  /\ req.body.kind \in { "nourl", "text" }
  /\ req.v.is_valid
  /\ req.v.type = "url"
  /\ fault # "lookup"
  /\ cached = None

----------------------------------------------------------------------------
(* Specification of the service: a sequence of /predict requests.          *)

NoRequest == [ kind |-> "none", url |-> << >> ]

\* no artifact on disk
NoFile == [ kind |-> "absent", id |-> 0 ]

\* the service before its first request: an empty table
ServiceInit ==
  /\ urls = {}
  /\ seq = 0
  /\ clock = 0
  /\ response = NoResponse
  /\ last = [ body |-> NoRequest, out |-> Idle({}, 0), before |-> {} ]
  /\ lastPut = [ k \in Keys |-> None ]
  /\ got = [ url |-> << >>, result |-> None ]
  /\ threads = << >>

\* no function is being called on its own
CallInit == arg = None /\ ret = None

\* no classifier object, no artifact
DetectorInit == detector = None /\ model_file = NoFile

Init == ServiceInit /\ CallInit /\ DetectorInit

\* the record of a successful save
PutOf(url_type, is_phishing, confidence) ==
  [ url_type |-> url_type, is_phishing |-> is_phishing, confidence |-> confidence ]

\* the effect of a handled request on the state
Handled(body, out) ==
  /\ urls' = out.urls
  /\ seq' = out.seq
  /\ response' = out.response
  /\ last' = [ body |-> body, out |-> out, before |-> urls ]
  /\ lastPut' = IF out.saved = "ok"
                  THEN [ lastPut EXCEPT ![out.classified[1].normalized] =
                           Some(PutOf(out.classified[1].type,
                                      out.decision[1].is_phishing,
                                      out.decision[1].confidence)) ]
                  ELSE lastPut

\* POST /predict
Predict ==
  /\ clock < MaxOps
  /\ \E req \in Requests, fault \in Faults :
       \E cached \in get_url_result(urls, KeyOf(req)) :
       \E drawn \in { ReachesUrlPath(req, fault, cached) } :
       \E p1 \in IF drawn THEN ProbaLevels ELSE { 0 },
          intel \in IF drawn THEN IntelSamples ELSE { CHOOSE i \in IntelSamples : TRUE } :
       \E out \in { predict(urls, seq, clock + 1, req, p1, intel, fault, cached) } :
         Handled(req.body, out)
  /\ clock' = clock + 1
  /\ UNCHANGED << got, callVars, detectorVars, threads >>

Next == Predict

Spec == Init /\ [][Next]_vars

----------------------------------------------------------------------------
(* Specification of the cache alone: direct calls of the Database methods.  *)

\* the effect of a direct save on the state
Saved(url, url_type, is_phishing, confidence, sv) ==
  /\ urls' = sv.urls
  /\ seq' = sv.seq
  /\ lastPut' = IF sv.ok
                  THEN [ lastPut EXCEPT ![url] =
                           Some(PutOf(url_type, is_phishing, confidence)) ]
                  ELSE lastPut

\* db.save_url_result(url, url_type, is_phishing, confidence)
DbSave ==
  /\ clock < MaxOps
  /\ \E url \in Keys, url_type \in UrlTypes \cup { "invalid" },
        is_phishing \in BOOLEAN, confidence \in ConfLevels, io_error \in BOOLEAN :
       \E sv \in { save_url_result(urls, seq, clock + 1, url, url_type,
                                    is_phishing, confidence, io_error) } :
         Saved(url, url_type, is_phishing, confidence, sv)
  /\ clock' = clock + 1
  /\ UNCHANGED << response, last, got, callVars, detectorVars, threads >>

\* db.get_url_result(url)
DbGet ==
  /\ clock < MaxOps
  /\ \E url \in Keys :
       \E result \in get_url_result(urls, url) :
         got' = [ url |-> url, result |-> result ]
  /\ clock' = clock + 1
  /\ UNCHANGED << urls, seq, response, last, lastPut, callVars, detectorVars, threads >>

NextDb == DbSave \/ DbGet

DbSpec == Init /\ [][NextDb]_vars

----------------------------------------------------------------------------
(* Specification of the statistics: direct saves and calls of              *)
(* get_statistics.                                                         *)

\* the text of a value of column url_type
TypeText(url_type) ==
  IF url_type = "url" THEN << "u", "r", "l" >>
  ELSE IF url_type = "email" THEN << "e", "m", "a", "i", "l" >>
  ELSE << >>

\* get_statistics, lines 135-160.  In  WHERE url_type = "url"  the double
\* quotes make "url" an identifier, and the table has a column url: sqlite
\* compares the two columns.  "email" names no column and is read as the
\* string 'email'.
get_statistics(table) ==
  LET total == Cardinality(table)
      phishing_count == Cardinality({ r \in table : r.is_phishing = 1 })
      url_count == Cardinality({ r \in table : TypeText(r.url_type) = r.url })
      email_count == Cardinality({ r \in table : r.url_type = "email" })
  IN  [ total |-> total, phishing |-> phishing_count,
        safe |-> total - phishing_count,
        urls |-> url_count, emails |-> email_count ]

\* db.get_statistics(); arg keeps the keys saved successfully before the call
DbStats ==
  /\ clock < MaxOps
  /\ ret' = Some(get_statistics(urls))
  /\ arg' = Some({ k \in Keys : lastPut[k] # None })
  /\ clock' = clock + 1
  /\ UNCHANGED << serviceVars, detectorVars, threads >>

NextStats == DbSave \/ DbStats

StatsSpec == Init /\ [][NextStats]_vars

----------------------------------------------------------------------------
(* Specification of the threat-intelligence aggregation: one call of       *)
(* get_threat_intel in every environment.                                  *)

InitIntel ==
  /\ ServiceInit /\ DetectorInit
  /\ arg \in [ url : IntelUrls, env : IntelEnvs ]
  /\ ret = None

\* get_threat_intel(url)
GatherCall ==
  /\ ret = None
  /\ ret' = Some(Gather(arg.url, arg.env))
  /\ UNCHANGED << clock, serviceVars, arg, detectorVars, threads >>

NextIntel == GatherCall

IntelSpec == InitIntel /\ [][NextIntel]_vars

----------------------------------------------------------------------------
(* Specification of the input validator: one call of                       *)
(* validate_and_classify on every sampled string.                          *)

\* the first 0 .. MaxUpper characters of a sample are put in upper case
MaxUpper == 2

\* 0 .. MaxPad blanks are put before and after a sample
MaxPad == 1

\* str.upper() on one character
UpperChar(c) ==
  IF c \in Lowers
    THEN UpperSeq[CHOOSE i \in DOMAIN LowerSeq : LowerSeq[i] = c]
    ELSE c

\* s with its first k characters in upper case
UpperFirst(s, k) == [ i \in DOMAIN s |-> IF i <= k THEN UpperChar(s[i]) ELSE s[i] ]

\* n blanks
Blanks(n) == [ i \in 1 .. n |-> " " ]

\* strings of the e-mail grammar
EmailSamples ==
  { T_gmail,
      T_mailinator,
      << "a", "@", "b", ".", "c", "d" >>,
      << "a", ".", "b", "%", "c", "+", "d", "-", "e", "_", "f", "@", "x", "-", "y", ".", "z", ".", "i", "n", "f", "o" >> }

\* strings that start with a scheme and ://
SchemeSamples ==
  { T_url,
      T_bracket,
      << "h", "t", "t", "p", "s", ":", "/", "/", "a", ".", "t", "k" >>,
      << "h", "t", "t", "p", ":", "/", "/", "1", ".", "2", ".", "3", ".", "4", ":", "8", "0", "/", "x" >>,
      << "f", "t", "p", ":", "/", "/", "a", ".", "t", "k", "/", "x" >> }

\* strings without a scheme: host names, near-misses of the e-mail grammar,
\* a URL whose query holds ://, a string that starts with ://, and strings
\* that are no URL
BareSamples ==
  { T_path,
      << "a", ".", "t", "k", "/", "l", "o", "g", "i", "n" >>,
      << "w", "w", "w", ".", "x" >>,
      << "l", "o", "c", "a", "l", "h", "o", "s", "t" >>,
      << "a", "@", "b" >>,
      << "a", "@", "b", ".", "c" >>,
      << "x", "@", "y", ".", "c", "o", "m", "/" >>,
      << "h", "e", "l", "l", "o" >>,
      << "a", ".", "t", "k", "/", "?", "u", "=", "b", ":", "/", "/", "c" >>,
      << ":", "/", "/", "a", ".", "t", "k" >>,
      << "?", "q" >>,
      << "#", "f" >> }

\* an input of validate_and_classify with what is known of it: whether it
\* belongs to the e-mail grammar and whether it starts with a scheme
ValidatorInputs ==
  { [ text |-> Blanks(i) \o UpperFirst(t, k) \o Blanks(j),
      grammar |-> IF t \in EmailSamples THEN "email" ELSE "other",
      has_scheme |-> t \in SchemeSamples ] :
      t \in EmailSamples \cup SchemeSamples \cup BareSamples,
      k \in 0 .. MaxUpper, i \in 0 .. MaxPad, j \in 0 .. MaxPad }

InitValidator ==
  /\ ServiceInit /\ DetectorInit
  /\ arg \in ValidatorInputs
  /\ ret = None

\* URLValidator.validate_and_classify(text)
ClassifyCall ==
  /\ ret = None
  /\ ret' = Some(validate_and_classify(arg.text))
  /\ UNCHANGED << clock, serviceVars, arg, detectorVars, threads >>

NextValidator == ClassifyCall

ValidatorSpec == InitValidator /\ [][NextValidator]_vars

----------------------------------------------------------------------------
(* Specification of the feature extraction: one call of extract_features   *)
(* on every sampled string.                                                *)

\* explicit ports 0 .. MaxPort are tried besides the values around 80, 443
\* and the largest port
MaxPort == 3

PortSamples == (0 .. MaxPort) \cup { 79, 80, 81, 442, 443, 444, 8080, 65535 }

\* str(n)
RECURSIVE Dec(_)
Dec(n) ==
  IF n < 10 THEN << DigitSeq[n + 1] >>
  ELSE Dec(n \div 10) \o << DigitSeq[(n % 10) + 1] >>

S_a_tk  == << "a", ".", "t", "k" >>
S_login == << "/", "l", "o", "g", "i", "n" >>

\* an input of extract_features with what is known of it: whether urlparse
\* accepts it, and its port (explicit with its number, none, or unparsable)
FeatureInput(url, parses, port_kind, port) ==
  [ url |-> url, parses |-> parses, port_kind |-> port_kind, port |-> port ]

\* URLs with an explicit port: with and without scheme, with and without path
WithPort ==
  { FeatureInput(pre \o S_a_tk \o S_colon \o Dec(n) \o tail, TRUE, "explicit", n) :
      pre \in { << >>, S_httpSep, S_httpsSep }, tail \in { << >>, S_login },
      n \in PortSamples }

\* URLs whose port is not a number, or is out of range
WithBadPort ==
  { FeatureInput(S_httpSep \o S_a_tk \o S_colon \o bad \o tail, TRUE, "unparsable", 0) :
      bad \in { << "8", "a" >>, << "6", "5", "5", "3", "6" >>, << "-", "1" >> },
      tail \in { << >>, S_login } }

\* strings without a port: the empty string, strings that are no URL, a URL
\* with an empty port, and a string urlparse rejects
WithoutPort ==
  { FeatureInput(u, TRUE, "none", 0) :
      u \in { T_empty, T_blank, T_path, T_url, T_urlBare, T_mailinator,
              S_httpSep \o S_a_tk \o S_colon \o S_login } }
    \cup { FeatureInput(T_bracket, FALSE, "none", 0) }

FeatureInputs == WithPort \cup WithBadPort \cup WithoutPort

InitFeatures ==
  /\ ServiceInit /\ DetectorInit
  /\ arg \in FeatureInputs
  /\ ret = None

\* ml_detector.extract_features(url)
ExtractCall ==
  /\ ret = None
  /\ ret' = Some(extract_features(arg.url))
  /\ UNCHANGED << clock, serviceVars, arg, detectorVars, threads >>

NextFeatures == ExtractCall

FeatureSpec == InitFeatures /\ [][NextFeatures]_vars

----------------------------------------------------------------------------
(* Properties of the decision fusion.                                      *)

\* C1: when the threat signal has listed_in_blacklist, the fused decision is
\* phishing with confidence max(classifier confidence, 0.99), so at least
\* 0.99, whatever the classifier said and whatever very_young_domain is; the
\* response carries that decision.
C1_BlacklistRule ==
  LET out == last.out
  IN  (out.intel # None /\ out.decision # None
         /\ out.intel[1].flags.listed_in_blacklist) =>
        LET c == out.ml[1].confidence
            d == out.decision[1]
        IN  /\ d.is_phishing
            /\ d.confidence = (IF c >= 99 THEN c ELSE 99)
            /\ d.confidence >= 99
            /\ (out.raised = "none" =>
                  /\ response.verdict = "PHISHING"
                  /\ response.confidence = d.confidence)

\* a blacklisted young domain that the classifier called safe is answered
\* PHISHING 0.99
C1_Witness ==
  LET out == last.out
  IN  /\ out.intel # None
      /\ out.intel[1].flags.listed_in_blacklist
      /\ out.intel[1].flags.very_young_domain
      /\ ~out.ml[1].is_phishing
      /\ response.verdict = "PHISHING"
      /\ response.confidence = 99

\* C2: for a very young, not blacklisted domain that the classifier calls
\* phishing with confidence c, the fused decision stays phishing with
\* confidence min(c + 0.05, 0.98); (true, 0.80) gives (true, 0.85); the rule
\* never yields more than 0.98.
C2_YoungDomainRule ==
  LET out == last.out
  IN  (out.intel # None /\ out.decision # None
         /\ out.intel[1].flags.very_young_domain
         /\ ~out.intel[1].flags.listed_in_blacklist
         /\ out.ml[1].is_phishing) =>
        LET c == out.ml[1].confidence
            d == out.decision[1]
        IN  /\ d.is_phishing
            /\ d.confidence = (IF c + 5 <= 98 THEN c + 5 ELSE 98)
            /\ (c = 80 => d.confidence = 85)
            /\ d.confidence <= 98
            /\ (out.raised = "none" =>
                  /\ response.verdict = "PHISHING"
                  /\ response.confidence = d.confidence)

\* classifier (true, 0.80) on a young domain is answered PHISHING 0.85
C2_Witness ==
  LET out == last.out
  IN  /\ out.intel # None
      /\ out.intel[1].flags.very_young_domain
      /\ ~out.intel[1].flags.listed_in_blacklist
      /\ out.ml[1] = [ is_phishing |-> TRUE, confidence |-> 80 ]
      /\ response.verdict = "PHISHING"
      /\ response.confidence = 85

\* C3: when the domain is not blacklisted and it is not the case that it is
\* very young and called phishing, the fused decision is the classifier's,
\* unchanged; a young domain called safe stays safe with the same confidence.
C3_PassThrough ==
  LET out == last.out
  IN  (out.intel # None /\ out.decision # None
         /\ ~out.intel[1].flags.listed_in_blacklist
         /\ ~(out.intel[1].flags.very_young_domain /\ out.ml[1].is_phishing)) =>
        /\ out.decision[1] = out.ml[1]
        /\ (out.raised = "none" =>
              /\ response.verdict = (IF out.ml[1].is_phishing THEN "PHISHING" ELSE "SAFE")
              /\ response.confidence = out.ml[1].confidence)

\* a young domain that the classifier called safe with 0.80 is answered
\* SAFE 0.80
C3_Witness ==
  LET out == last.out
  IN  /\ out.intel # None
      /\ out.intel[1].flags.very_young_domain
      /\ ~out.intel[1].flags.listed_in_blacklist
      /\ out.ml[1] = [ is_phishing |-> FALSE, confidence |-> 80 ]
      /\ response.verdict = "SAFE"
      /\ response.confidence = 80

\* C4: the confidence of every response (fresh URL verdict, e-mail verdict,
\* cached verdict, INVALID, ERROR) lies in [0, 1].
C4_ConfidenceInUnitInterval ==
  response.confidence >= 0 /\ response.confidence <= 100

\* a cached verdict whose confidence the young-domain rule capped at 0.98
C4_Witness ==
  /\ response.from_cache
  /\ response.verdict = "PHISHING"
  /\ response.confidence = 98

----------------------------------------------------------------------------
(* Properties of the responses and of the cache.                           *)

\* C5: a response is PHISHING exactly when the underlying boolean decision is
\* true, SAFE exactly when it is false; the decision is the fused value for a
\* fresh answer, and for a cached answer the boolean that was saved.
C5_VerdictIffDecision ==
  response.verdict \in { "PHISHING", "SAFE" } =>
    LET out == last.out
        d   == out.decision[1]
        key == out.classified[1].normalized
    IN  /\ out.decision # None
        /\ (response.verdict = "PHISHING") <=> d.is_phishing
        /\ (response.from_cache \/ out.saved = "ok") =>
             /\ lastPut[key] # None
             /\ lastPut[key][1].is_phishing = d.is_phishing
             /\ \A r \in RowsOf(urls, key) : (r.is_phishing = 1) <=> d.is_phishing
        /\ (out.ml # None /\ ~response.from_cache) =>
             d.is_phishing = (out.ml[1].is_phishing
                                \/ out.intel[1].flags.listed_in_blacklist)

\* a SAFE verdict served from the cache
C5_Witness ==
  /\ response.from_cache
  /\ response.verdict = "SAFE"
  /\ \E r \in urls : r.url = last.out.classified[1].normalized /\ r.is_phishing = 0

\* C6: when the cache holds a row for the normalized input (and the lookup
\* does not fail), the response is the stored verdict, kind and confidence
\* with from_cache = true, and the handler calls nothing but the lookup: no
\* classifier, no threat intelligence, no cache write.
C6_CacheHit ==
  LET out == last.out
  IN  (out.classified # None /\ out.raised = "none"
         /\ out.classified[1].is_valid
         /\ RowsOf(last.before, out.classified[1].normalized) # {}) =>
        /\ \E r \in RowsOf(last.before, out.classified[1].normalized) :
             /\ response.verdict = (IF r.is_phishing = 1 THEN "PHISHING" ELSE "SAFE")
             /\ response.url_type = r.url_type
             /\ response.confidence = r.confidence
        /\ response.from_cache
        /\ response.threat_intel = None
        /\ out.calls = << "get_url_result" >>
        /\ out.ml = None /\ out.intel = None /\ out.saved = "none"
        /\ urls = last.before

\* the URL typed without scheme and in upper case is answered from the row
\* stored under its normalized form
C6_Witness ==
  /\ last.body.url = T_urlBare
  /\ response.from_cache
  /\ response.url_type = "url"
  /\ last.out.calls = << "get_url_result" >>
  /\ \E r \in urls : r.url = T_url /\ r.confidence = response.confidence

\* C7: after any sequence of save_url_result calls the table holds at most
\* one row per key, and get_url_result(key) returns the kind, decision and
\* confidence of the last successful save of that key, or None if there was
\* none.
C7_LatestWriteWins ==
  /\ \A r1, r2 \in urls : r1.url = r2.url => r1 = r2
  /\ \A k \in Keys :
       \A res \in get_url_result(urls, k) :
         /\ (res = None) <=> (lastPut[k] = None)
         /\ res # None =>
              /\ res[1].url = k
              /\ lastPut[k][1] = [ url_type    |-> res[1].url_type,
                                  is_phishing |-> res[1].is_phishing,
                                  confidence  |-> res[1].confidence ]

\* a key was saved twice and then read: one row, written by the second save
C7_Witness ==
  /\ seq = 2
  /\ Cardinality(urls) = 1
  /\ got.result # None
  /\ got.result[1].created_at = 2
  /\ lastPut[got.url] # None
  /\ lastPut[got.url][1].confidence = got.result[1].confidence

\* C8: an uncached e-mail is decided by its domain alone: a provider of the
\* disposable list in the part after '@' gives PHISHING 0.85, anything else
\* SAFE 0.15; the classifier and the threat intelligence are not called, and
\* the decision is written to the cache.
C8_EmailPath ==
  LET out == last.out
  IN  (out.classified # None /\ out.classified[1].type = "email"
         /\ RowsOf(last.before, out.classified[1].normalized) = {}
         /\ out.raised # "get_url_result") =>
        LET key  == out.classified[1].normalized
            dom  == SliceFrom(key, Find(key, << "@" >>, 0) + 1)
            hit  == \E sd \in suspicious_domains : Contains(dom, sd)
            conf == IF hit THEN 85 ELSE 15
        IN  /\ out.decision = Some([ is_phishing |-> hit, confidence |-> conf ])
            /\ (key = T_mailinator => hit)
            /\ (key \in { T_gmail, T_localPart } => ~hit)
            /\ out.calls = << "get_url_result", "save_url_result" >>
            /\ out.ml = None /\ out.intel = None
            /\ (out.raised = "none" =>
                  response = [ verdict |-> IF hit THEN "PHISHING" ELSE "SAFE",
                               url_type |-> "email", confidence |-> conf,
                               from_cache |-> FALSE, threat_intel |-> None,
                               status |-> 200 ])
            /\ (out.raised = "none" /\ out.saved # "failed") =>
                  \E r \in urls :
                    /\ r.url = key /\ r.url_type = "email"
                    /\ r.is_phishing = (IF hit THEN 1 ELSE 0)
                    /\ r.confidence = conf

\* " User@Mailinator.COM" is answered PHISHING 0.85 and stored under
\* "user@mailinator.com"
C8_Witness ==
  /\ last.body.url = T_mailUpper
  /\ response.verdict = "PHISHING"
  /\ response.confidence = 85
  /\ ~response.from_cache
  /\ \E r \in urls : r.url = T_mailinator /\ r.is_phishing = 1 /\ r.confidence = 85

\* C9: a missing, empty or blank input, and an input the validator marks
\* invalid, is answered INVALID with confidence 0.0 and from_cache = false,
\* and the handler calls neither the cache nor the classifier nor the threat
\* intelligence.
C9_InputErrors ==
  LET out  == last.out
      body == last.body
      inputError ==
        \/ body.kind \in { "empty", "nourl" }
        \/ /\ body.kind = "text"
           /\ \/ Stripped[body.url] = << >>
              \/ ~Classified[Stripped[body.url]].is_valid
  IN  /\ inputError =>
        /\ response.verdict = "INVALID"
        /\ response.confidence = 0
        /\ ~response.from_cache
        /\ out.raised = "none"
        /\ out.calls = << >>
        /\ out.cached = None /\ out.ml = None /\ out.intel = None
        /\ urls = last.before
      /\ (body.kind = "text" /\ body.url \in { T_empty, T_blank, T_path, T_bracket })
           => inputError

\* "http://[a" is answered INVALID while the cache holds rows, which stay
C9_Witness ==
  /\ last.body.kind = "text"
  /\ last.body.url = T_bracket
  /\ response = InvalidResponse
  /\ last.out.calls = << >>
  /\ urls # {}

\* C10 as stated: every exception raised during evaluation, the ones raised
\* inside the cache write included, is answered ERROR with confidence 0.0.
C10_EveryExceptionIsError ==
  (last.out.raised # "none" \/ last.out.saved = "failed") =>
    (response.verdict = "ERROR" /\ response.confidence = 0)

\* C10 (amended): an exception that reaches the handler (request parsing,
\* cache lookup, classifier, opening the connection of the cache write) is
\* answered ERROR with confidence 0.0 and never leaves the handler, and ERROR
\* is answered in no other case; an exception raised by the statement of
\* the cache write is caught in save_url_result and the request is still
\* answered PHISHING or SAFE, with nothing written.
C10_ExceptionsBecomeError ==
  LET out == last.out
  IN  /\ out.raised # "none" => response = ErrorResponse
      /\ response.verdict = "ERROR" => out.raised # "none"
      /\ (out.raised = "none" /\ out.saved = "failed") =>
           /\ response.verdict \in { "PHISHING", "SAFE" }
           /\ ~response.from_cache
           /\ urls = last.before
      /\ clock > 0 => response.verdict \in { "PHISHING", "SAFE", "INVALID", "ERROR" }

\* the classifier raised on an uncached URL: ERROR, nothing written
C10_Witness ==
  /\ last.out.raised = "predict"
  /\ last.out.calls = << "get_url_result", "predict" >>
  /\ response = ErrorResponse
  /\ urls = last.before

----------------------------------------------------------------------------
(* Properties of the threat-intelligence aggregation.                      *)

\* the PhishTank request of the environment fails
PhishTankFails(env) == env.phishtank.api_key /\ env.phishtank.reply.kind # "ok"

\* the Safe Browsing request of the environment fails
SafeBrowsingFails(env) == env.gsb.api_key /\ env.gsb.reply.kind # "ok"

\* the registry answers with a creation date
HasCreationDate(env) == env.age.whois.kind \in { "datetime", "list" }

\* the domain-age lookup is attempted and fails
AgeLookupFails(env) ==
  env.age.whois_lib /\ (~env.age.resolves \/ ~HasCreationDate(env))

\* C11: listed_in_blacklist is true iff an enabled provider reports a
\* confirmed positive (PhishTank: in the database and valid; Safe Browsing:
\* a match); very_young_domain is true iff the age lookup succeeded and
\* 0 <= age_days < 30; a disabled or failed provider never sets
\* listed_in_blacklist.
C11_ThreatFlags ==
  ret # None =>
    LET env == arg.env
        ti  == ret[1].value[1]
        pt_positive ==
          /\ env.phishtank.api_key /\ env.phishtank.reply.kind = "ok"
          /\ env.phishtank.reply.in_database /\ env.phishtank.reply.valid
        gsb_positive ==
          /\ env.gsb.api_key /\ env.gsb.reply.kind = "ok"
          /\ env.gsb.reply.matches # << >>
        age_known ==
          /\ extract_domain(arg.url) # None
          /\ env.age.whois_lib /\ env.age.resolves /\ HasCreationDate(env)
    IN  /\ ti.flags.listed_in_blacklist <=> (pt_positive \/ gsb_positive)
        /\ ti.flags.very_young_domain <=> (age_known /\ env.age.whois.hours < 30 * 24)
        /\ ti.flags.very_young_domain <=>
              (ti.whois.success /\ ti.whois.age_days >= 0 /\ ti.whois.age_days < 30)
        /\ ((~env.phishtank.api_key \/ PhishTankFails(env))
              /\ (~env.gsb.api_key \/ SafeBrowsingFails(env)))
             => ~ti.flags.listed_in_blacklist

\* PhishTank timed out, Safe Browsing reports a match, and the creation date
\* lies in the future: both flags are set
C11_Witness ==
  /\ ret # None
  /\ arg.env.phishtank.api_key /\ arg.env.phishtank.reply.kind = "post_raises"
  /\ arg.env.age.whois.hours = -25
  /\ ret[1].value[1].flags = [ listed_in_blacklist |-> TRUE, very_young_domain |-> TRUE ]

\* the environment in which no provider fails, and the one in which all do
HealthyEnv ==
  [ age |-> [ whois_lib |-> TRUE, resolves |-> TRUE,
              whois |-> [ kind |-> "datetime", hours |-> 720 ] ],
    phishtank |-> [ api_key |-> TRUE,
                    reply |-> [ kind |-> "ok", in_database |-> FALSE, valid |-> FALSE ] ],
    gsb |-> [ api_key |-> TRUE, reply |-> [ kind |-> "ok", matches |-> << >> ] ] ]

BrokenEnv ==
  [ age |-> [ whois_lib |-> TRUE, resolves |-> TRUE,
              whois |-> [ kind |-> "raises", hours |-> 0 ] ],
    phishtank |-> [ api_key |-> TRUE,
                    reply |-> [ kind |-> "post_raises", in_database |-> FALSE, valid |-> FALSE ] ],
    gsb |-> [ api_key |-> TRUE, reply |-> [ kind |-> "bad_match", matches |-> << >> ] ] ]

\* two runs of get_threat_intel return, with the same result of one provider
SameResult(run1, provider, run2) ==
  /\ ~run1.raised /\ ~run2.raised
  /\ run1.value[1][provider] = run2.value[1][provider]

\* C12: get_threat_intel never raises and returns the whois result, both
\* blacklist results and both flags; a provider that fails reports an error
\* and an unknown result; the result of every provider is what it is when
\* the other two providers all succeed, and when they all fail.
C12_ProviderIsolation ==
  ret # None =>
    LET env == arg.env
        run == ret[1]
    IN  /\ ~run.raised
        /\ run.value # None
        /\ DOMAIN run.value[1] = { "whois", "phishtank", "google_safe_browsing", "flags" }
        /\ PhishTankFails(env) =>
              /\ run.value[1].phishtank.error # None
              /\ run.value[1].phishtank.listed = PyNone
              /\ run.value[1].phishtank.verified_phish = PyNone
        /\ SafeBrowsingFails(env) =>
              /\ run.value[1].google_safe_browsing.error # None
              /\ run.value[1].google_safe_browsing.unsafe = PyNone
        /\ AgeLookupFails(env) =>
              /\ run.value[1].whois.error # None
              /\ ~run.value[1].whois.success
              /\ run.value[1].whois.age_days = NoAge
        /\ \A other \in { HealthyEnv, BrokenEnv } :
              /\ SameResult(run, "whois",
                            Gather(arg.url, [ other EXCEPT !.age = env.age ]))
              /\ SameResult(run, "phishtank",
                            Gather(arg.url, [ other EXCEPT !.phishtank = env.phishtank ]))
              /\ SameResult(run, "google_safe_browsing",
                            Gather(arg.url, [ other EXCEPT !.gsb = env.gsb ]))

\* the registry raises and PhishTank times out, Safe Browsing still reports
\* its match
C12_Witness ==
  /\ ret # None
  /\ arg.env.age.whois_lib /\ arg.env.age.resolves
  /\ arg.env.age.whois.kind = "raises"
  /\ PhishTankFails(arg.env)
  /\ ~ret[1].raised
  /\ ret[1].value[1].google_safe_browsing.unsafe = PyTrue
  /\ ret[1].value[1].flags.listed_in_blacklist

\* C18: the registry lookup is made only after the DNS resolution of the
\* domain succeeded; when the resolution fails there is no registry lookup
\* and the result is success = false, error = "Domain does not resolve",
\* age_days and creation_date unset; whenever success = true, age_days is
\* an integer >= 0, and 0 for a creation date in the future.
C18_DomainAgeOrdering ==
  ret # None =>
    LET env   == arg.env.age
        calls == ret[1].calls
        w     == ret[1].value[1].whois
    IN  /\ \A i \in DOMAIN calls :
              calls[i] = "whois" =>
                /\ env.resolves
                /\ \E j \in 1 .. (i - 1) : calls[j] = "gethostbyname"
        /\ (w.domain # None /\ env.whois_lib /\ ~env.resolves) =>
              /\ \A i \in DOMAIN calls : calls[i] # "whois"
              /\ w = AgeResult(w.domain, FALSE, None, NoAge, Some(E_no_dns))
        /\ w.success =>
              /\ w.age_days \in Nat
              /\ w.age_days = (IF env.whois.hours < 0 THEN 0 ELSE env.whois.hours \div 24)
              /\ w.creation_date # None /\ w.error = None

\* a domain that does not resolve: one DNS query, no registry lookup
C18_Witness ==
  /\ ret # None
  /\ arg.url = T_url
  /\ ~arg.env.age.resolves
  /\ arg.env.age.whois.kind = "datetime"
  /\ Len(ret[1].calls) >= 1
  /\ ret[1].calls[1] = "gethostbyname"
  /\ \A i \in DOMAIN ret[1].calls : ret[1].calls[i] # "whois"
  /\ ret[1].value[1].whois.error = Some(E_no_dns)
  /\ ret[1].value[1].whois.domain = Some(<< "a", ".", "t", "k" >>)

----------------------------------------------------------------------------
(* Properties of the feature extraction.                                   *)

\* C13: extract_features returns, for every string, a vector of 31 slots in
\* the order 9 lexical, 3 protocol, 1 keyword, 3 pattern, 8 domain, 2 path,
\* 2 query, 1 port, 2 ratio; when URL parsing fails the groups that need the
\* parse are zero and the others are computed; when only the port fails to
\* parse the port slot alone is zero.
C13_FixedLength ==
  ret # None =>
    LET v   == ret[1].value
        url == arg.url
    IN  /\ ~ret[1].raised
        /\ Len(v) = 31
        /\ \A i \in 1 .. 29 : v[i] \in Nat
        /\ \A i \in 30 .. 31 : v[i][1] \in 0 .. v[i][2] /\ v[i][2] > 0
        /\ v[1] = Len(url) /\ v[5] = Count(url, "/")
        /\ \A i \in { 10, 11, 12, 14, 15, 16, 19, 20, 21, 22, 23, 24, 29 } :
              v[i] \in { 0, 1 }
        /\ v[30][2] = (IF url = << >> THEN 1 ELSE Len(url))
        /\ ~arg.parses =>
              /\ v[16] = 0
              /\ SubSeq(v, 17, 29) = Zeros(13)
        /\ arg.port_kind = "unparsable" => (v[29] = 0 /\ v[17] > 0 /\ v[18] = 1)

\* "http://[a", which urlparse rejects, gives 31 slots with the lexical
\* group computed
C13_Witness ==
  /\ ret # None
  /\ arg.url = T_bracket
  /\ Len(ret[1].value) = 31
  /\ ret[1].value[1] = 9
  /\ ret[1].value[11] = 1

\* C19: the port slot is 1 iff the URL carries an explicit port that is
\* neither 80 nor 443, for every explicit port 0 .. 65535, port 0 included;
\* it is 0 when there is no port or the port cannot be parsed.
C19_PortFeature ==
  ret # None =>
    (ret[1].value[29] = 1
       <=> (arg.port_kind = "explicit" /\ arg.port \notin { 80, 443 }))

----------------------------------------------------------------------------
(* Specification of the classifier object: PhishingURLDetector is          *)
(* constructed when the process starts (app.py line 12), predict and       *)
(* train_model are called on it, and the artifact at model_path can be     *)
(* removed, damaged or replaced from outside.  A model is named by a       *)
(* number: 0 for the one found on disk, the number of the step for one     *)
(* that train_model fits; the attribute model is None or Some(number).     *)

\* what the environment can leave at model_path
Artifacts ==
  { NoFile, [ kind |-> "corrupt", id |-> 0 ], [ kind |-> "model", id |-> 0 ] }

\* lines 235-261: fit a new model, then write it to model_path
train_model(fresh) ==
  [ model |-> Some(fresh), file |-> [ kind |-> "model", id |-> fresh ] ]

\* lines 263-275: pickle.load of the artifact; train_model when there is no
\* artifact or when the load raises
load_or_train_model(model, file, fresh) ==
  IF file.kind # "absent"
    THEN IF file.kind = "model"
           THEN [ model |-> Some(file.id), file |-> file ]
           ELSE train_model(fresh)
    ELSE train_model(fresh)

\* lines 18-21: model = None, then load_or_train_model
PhishingURLDetector(file, fresh) == load_or_train_model(None, file, fresh)

\* predict that loads the artifact on every call
detector_predict_reloads(model, file, fresh, p1) ==
  [ loaded |-> load_or_train_model(model, file, fresh), value |-> ml_predict(p1) ]

\* lines 277-292: predict loads or trains only when model is None
detector_predict(model, file, fresh, p1) ==
  [ loaded |-> IF model = None
                 THEN load_or_train_model(model, file, fresh)
                 ELSE [ model |-> model, file |-> file ],
    value  |-> ml_predict(p1) ]

InitModel ==
  /\ ServiceInit
  /\ arg = None /\ ret = None
  /\ detector = None
  /\ model_file \in Artifacts

\* app.py line 12: ml_detector = PhishingURLDetector()
Construct ==
  /\ clock < MaxOps
  /\ detector = None
  /\ \E made \in { PhishingURLDetector(model_file, clock + 1) } :
       /\ detector' = Some([ model |-> made.model ])
       /\ model_file' = made.file
  /\ arg' = Some("PhishingURLDetector")
  /\ ret' = None
  /\ clock' = clock + 1
  /\ UNCHANGED << serviceVars, threads >>

\* ml_detector.predict(url)
ModelPredict ==
  /\ clock < MaxOps
  /\ detector # None
  /\ \E p1 \in ProbaLevels :
     \E out \in { detector_predict(detector[1].model, model_file, clock + 1, p1) } :
       /\ detector' = Some([ model |-> out.loaded.model ])
       /\ model_file' = out.loaded.file
       /\ ret' = Some(out.value)
  /\ arg' = Some("predict")
  /\ clock' = clock + 1
  /\ UNCHANGED << serviceVars, threads >>

\* ml_detector.train_model()
Train ==
  /\ clock < MaxOps
  /\ detector # None
  /\ \E made \in { train_model(clock + 1) } :
       /\ detector' = Some([ model |-> made.model ])
       /\ model_file' = made.file
  /\ arg' = Some("train_model")
  /\ ret' = None
  /\ clock' = clock + 1
  /\ UNCHANGED << serviceVars, threads >>

\* the artifact is removed, damaged or replaced from outside the process
ArtifactChange ==
  /\ clock < MaxOps
  /\ model_file' \in Artifacts \ { model_file }
  /\ arg' = Some("artifact")
  /\ clock' = clock + 1
  /\ UNCHANGED << serviceVars, ret, detector, threads >>

\* the process ends; the next start constructs the classifier again
Restart ==
  /\ clock < MaxOps
  /\ detector # None
  /\ detector' = None
  /\ arg' = Some("exit")
  /\ ret' = None
  /\ clock' = clock + 1
  /\ UNCHANGED << serviceVars, model_file, threads >>

NextModel == Construct \/ ModelPredict \/ Train \/ ArtifactChange \/ Restart

ModelSpec == InitModel /\ [][NextModel]_vars

----------------------------------------------------------------------------
(* Specification of concurrent requests: up to MaxThreads /predict         *)
(* requests for one key are handled at the same time, each by its own      *)
(* thread with its own sqlite connection.  A thread touches the table      *)
(* twice, in db.get_url_result (line 55) and in db.save_url_result (line   *)
(* 99); sqlite runs each statement atomically.  The classifier and the     *)
(* threat intelligence touch no shared state, so their outcome is drawn    *)
(* in the step of the write that follows them.                             *)

\* number of requests handled at the same time
MaxThreads == 2

\* the key all the requests normalize to
ContendedKey == T_url

\* the requests whose normalized input is the contended key
Contenders == { req \in Requests : req.v.is_valid /\ KeyOf(req) = ContendedKey }

\* the verdict, kind, confidence and from_cache of a response
AnswerOf(r) ==
  [ verdict |-> r.verdict, url_type |-> r.url_type,
    confidence |-> r.confidence, from_cache |-> r.from_cache ]

\* lines 21-52: a request arrives, is classified, and is about to look up
Arrive ==
  /\ Len(threads) < MaxThreads
  /\ \E req \in Contenders :
       threads' = Append(threads,
                         [ v |-> req.v, pc |-> "get_url_result",
                           answer |-> AnswerOf(NoResponse), saved |-> "none",
                           finished |-> 0 ])
  /\ UNCHANGED << clock, serviceVars, callVars, detectorVars >>

\* lines 55-68: the lookup; a hit is answered at once
Lookup(t) ==
  /\ threads[t].pc = "get_url_result"
  /\ \E cached \in get_url_result(urls, threads[t].v.normalized) :
       IF cached # None
         THEN /\ \E out \in { AnswerFromCache(Idle(urls, seq), threads[t].v, cached[1]) } :
                   threads' = [ threads EXCEPT ![t].pc = "done",
                                               ![t].answer = AnswerOf(out.response),
                                               ![t].finished = clock + 1 ]
              /\ clock' = clock + 1
         ELSE /\ threads' = [ threads EXCEPT ![t].pc = "save_url_result" ]
              /\ clock' = clock
  /\ UNCHANGED << serviceVars, callVars, detectorVars >>

\* lines 88-109 after a miss: classifier, threat intelligence, fusion, the
\* write (which sqlite may refuse: "database is locked") and the answer
Write(t) ==
  /\ threads[t].pc = "save_url_result"
  /\ \E p1 \in ProbaLevels, intel \in IntelSamples, fault \in { "none", "save_exec" } :
     \E out \in { UrlPath(Idle(urls, seq), clock + 1, threads[t].v, p1, intel, fault) } :
       /\ urls' = out.urls
       /\ seq' = out.seq
       /\ lastPut' = IF out.saved = "ok"
                       THEN [ lastPut EXCEPT ![threads[t].v.normalized] =
                                Some(PutOf(threads[t].v.type,
                                           out.decision[1].is_phishing,
                                           out.decision[1].confidence)) ]
                       ELSE lastPut
       /\ threads' = [ threads EXCEPT ![t].pc = "done",
                                       ![t].answer = AnswerOf(out.response),
                                       ![t].saved = out.saved,
                                       ![t].finished = clock + 1 ]
  /\ clock' = clock + 1
  /\ UNCHANGED << response, last, got, callVars, detectorVars >>

NextThreads ==
  \/ Arrive
  \/ \E t \in DOMAIN threads : Lookup(t)
  \/ \E t \in DOMAIN threads : Write(t)

ThreadSpec == Init /\ [][NextThreads]_vars

----------------------------------------------------------------------------
(* Properties of the input validator.                                      *)

\* C14: a string that, trimmed, belongs to the e-mail grammar is classified
\* valid, of kind email, with normalized equal to the trimmed input in
\* lower case, and is_url rejects it: the URL tests are applied only to
\* strings that are no e-mails.
C14_EmailPrecedence ==
  ret # None =>
    /\ arg.grammar = "email" <=> EMAIL_PATTERN(Strip(arg.text))
    /\ arg.grammar = "email" =>
          /\ ret[1] = [ is_valid |-> TRUE, type |-> "email",
                        normalized |-> Lower(Strip(arg.text)) ]
          /\ ~is_url(arg.text)
    /\ ret[1].type = "email" => arg.grammar = "email"

\* " USer@gmail.com " is an e-mail, normalized to "user@gmail.com"
C14_Witness ==
  /\ ret # None
  /\ arg.text = << " ", "U", "S" >> \o SubSeq(T_gmail, 3, Len(T_gmail)) \o << " " >>
  /\ ret[1] = [ is_valid |-> TRUE, type |-> "email", normalized |-> T_gmail ]

\* the text starts with a scheme followed by ://
CarriesScheme(text) ==
  /\ SchemeEnd(text) > 0
  /\ Slice(text, SchemeEnd(text), SchemeEnd(text) + 3) = S_sep

\* C15, for the inputs classified as URL: normalized is in lower case and
\* carries a scheme; an input without a scheme gets the prefix http://, an
\* input with one keeps it.
C15_Normalized ==
  (ret # None /\ ret[1].type = "url") =>
    /\ ret[1].normalized = Lower(ret[1].normalized)
    /\ CarriesScheme(ret[1].normalized)
    /\ ret[1].normalized =
         (IF arg.has_scheme THEN Lower(Strip(arg.text))
          ELSE S_httpSep \o Lower(Strip(arg.text)))

----------------------------------------------------------------------------
(* Properties of the classifier object.                                    *)

\* the constructor has just returned
Constructed == detector = None /\ detector' # None

\* C16: the constructor loads the model of the artifact, or, when there is
\* no artifact or it does not deserialize, trains a model and writes it to
\* the artifact; a constructed classifier always has a model; predict leaves
\* the model and the artifact as they are, and only train_model replaces the
\* model of a constructed classifier.
C16_ModelLifecycle ==
  [][ /\ Constructed =>
           IF model_file.kind = "model"
             THEN detector'[1].model = Some(model_file.id) /\ model_file' = model_file
             ELSE /\ detector'[1].model \notin { Some(m.id) : m \in Artifacts } \cup { None }
                  /\ model_file' = [ kind |-> "model", id |-> detector'[1].model[1] ]
      /\ arg' = Some("PhishingURLDetector") => Constructed
      /\ detector' # None => detector'[1].model # None
      /\ arg' = Some("predict") =>
           detector' = detector /\ model_file' = model_file /\ ret' # None
      /\ (detector # None /\ detector' # None /\ detector' # detector) =>
           arg' = Some("train_model") ]_vars

\* a classifier constructed without an artifact trained model 1; the artifact
\* was then damaged, and predict answered with model 1 and left the artifact
C16_Witness ==
  /\ arg = Some("predict")
  /\ ret # None
  /\ detector = Some([ model |-> Some(1) ])
  /\ model_file.kind = "corrupt"

----------------------------------------------------------------------------
(* Properties of the order of an evaluation and of the fusion.             *)

\* an evaluation of a valid input in which nothing failed
Completed(out) ==
  /\ out.raised = "none"
  /\ out.classified # None
  /\ out.classified[1].is_valid
  /\ out.saved # "failed"

\* the evaluation recorded in l, which left the cache as table, looked up
\* the normalized input first; on a hit it called nothing else and wrote
\* nothing; on a miss it decided (for a URL: classifier, threat
\* intelligence, fusion), then wrote once, and the one row of the key
\* carries the kind, decision and confidence of the response
InOrder(l, table) ==
  LET out == l.out
      v   == out.classified[1]
      key == v.normalized
  IN  /\ out.cached \in get_url_result(l.before, key)
      /\ IF out.cached # None
           THEN /\ out.calls = << "get_url_result" >>
                /\ table = l.before
           ELSE /\ out.calls =
                     << "get_url_result" >>
                     \o (IF v.type = "url" THEN << "predict", "get_threat_intel" >>
                         ELSE << >>)
                     \o << "save_url_result" >>
                /\ v.type = "url" =>
                     out.decision = Some(Fuse(out.ml[1], out.intel[1].flags))
                /\ ~out.response.from_cache
                /\ out.saved = "ok"
                /\ Cardinality(RowsOf(table, key)) = 1
                /\ \A r \in RowsOf(table, key) :
                     /\ r.url_type = v.type
                     /\ out.response.url_type = v.type
                     /\ out.response.verdict = Verdict(r.is_phishing = 1)
                     /\ out.response.confidence = r.confidence
                /\ table \ RowsOf(table, key) = l.before

\* C17: an evaluation of a valid input in which nothing fails classifies,
\* then looks up the cache, then (on a miss only) decides by kind, then
\* writes the cache exactly once; the row under the normalized key carries
\* the kind, decision and confidence of the response (for a URL the fused
\* values), and the next evaluation of the same key answers with the same
\* verdict and confidence and from_cache = true.
C17_OrderAndCacheWrite ==
  [][ /\ Completed(last'.out) => InOrder(last', urls')
      /\ ( /\ Completed(last.out) /\ Completed(last'.out)
            /\ last'.out.classified[1].normalized = last.out.classified[1].normalized ) =>
            /\ response'.verdict = response.verdict
            /\ response'.confidence = response.confidence
            /\ response'.url_type = response.url_type
            /\ response'.from_cache ]_vars

\* a URL of a very young domain was answered PHISHING 0.98 (the classifier
\* said less), and its second evaluation gives the same from the cache
C17_Witness ==
  /\ clock = 2
  /\ response.from_cache
  /\ response.url_type = "url"
  /\ response.verdict = "PHISHING"
  /\ response.confidence = YoungDomainCap
  /\ last.out.calls = << "get_url_result" >>
  /\ last.before = urls

\* C20: the fused confidence is never below the classifier's confidence,
\* whatever the flags.
C20_FusionNeverLowers ==
  (last.out.ml # None /\ last.out.decision # None) =>
    last.out.decision[1].confidence >= last.out.ml[1].confidence

----------------------------------------------------------------------------
(* Frame of the evaluation on the cache.                                   *)

\* C21: an evaluation writes to the cache only on a miss for a valid input:
\* one that ends in INVALID, in ERROR or in a cache hit leaves the table as
\* it was; no row is ever removed or replaced; and once a key has a row,
\* every later evaluation of it that does not fail answers that row's
\* verdict and confidence, whatever the threat intelligence says then.
C21_WriteOnlyOnMiss ==
  [][ LET out == last'.out
      IN  /\ (response'.verdict \in { "INVALID", "ERROR" } \/ response'.from_cache) =>
                urls' = urls
          /\ urls' # urls =>
                /\ out.classified # None /\ out.classified[1].is_valid
                /\ out.cached = None
                /\ RowsOf(urls, out.classified[1].normalized) = {}
                /\ \A r \in urls' \ urls : r.url = out.classified[1].normalized
          /\ urls \subseteq urls'
          /\ (out.classified # None /\ out.raised = "none") =>
                \A r \in RowsOf(urls, out.classified[1].normalized) :
                  /\ response'.verdict = Verdict(r.is_phishing = 1)
                  /\ response'.confidence = r.confidence
                  /\ response'.from_cache ]_vars

\* the row written by the first evaluation is the only one after two more
\* evaluations, the last of them a hit
C21_Witness ==
  /\ clock = 3
  /\ seq = 1
  /\ response.from_cache
  /\ urls = last.before
  /\ \E r \in urls : r.created_at = 1 /\ r.id = 1

----------------------------------------------------------------------------
(* Properties of concurrent requests.                                      *)

\* the threads that have answered
Done == { t \in DOMAIN threads : threads[t].pc = "done" }

\* the threads whose write was committed
Committed == { t \in Done : threads[t].saved = "ok" }

\* C22: whatever the interleaving of the lookups and writes of requests for
\* one uncached key, the table never holds two rows for the key; the row it
\* holds is the one of the write committed last (when all requests are
\* answered and no write was refused, there is such a row); and an answer
\* with from_cache = true is the verdict and confidence of a request
\* answered before it with from_cache = false.
C22_ConcurrentSameKey ==
  /\ Cardinality(RowsOf(urls, ContendedKey)) <= 1
  /\ Cardinality(urls) = Cardinality(RowsOf(urls, ContendedKey))
  /\ (Committed = {}) <=> (urls = {})
  /\ \A t \in Committed :
       (\A u \in Committed : threads[u].finished <= threads[t].finished) =>
         \A r \in urls :
           /\ r.created_at = threads[t].finished
           /\ r.url_type = threads[t].answer.url_type
           /\ Verdict(r.is_phishing = 1) = threads[t].answer.verdict
           /\ r.confidence = threads[t].answer.confidence
  /\ ( /\ Len(threads) = MaxThreads /\ Done = DOMAIN threads
        /\ \A t \in Done : threads[t].saved # "failed" ) =>
         Cardinality(urls) = 1
  /\ \A t \in Done :
       threads[t].answer.from_cache =>
         \E u \in Committed :
           /\ threads[u].finished < threads[t].finished
           /\ ~threads[u].answer.from_cache
           /\ threads[u].answer.verdict = threads[t].answer.verdict
           /\ threads[u].answer.confidence = threads[t].answer.confidence
           /\ threads[u].answer.url_type = threads[t].answer.url_type

\* two requests both missed and both wrote, with different verdicts: one
\* row is left, the one of the second write
C22_Witness ==
  /\ Len(threads) = 2
  /\ Committed = { 1, 2 }
  /\ threads[1].answer.verdict = "PHISHING"
  /\ threads[2].answer.verdict = "SAFE"
  /\ threads[2].finished < threads[1].finished
  /\ Cardinality(urls) = 1
  /\ \A r \in urls : r.is_phishing = 1 /\ r.id = 2

----------------------------------------------------------------------------
(* Properties of the statistics.                                           *)

\* C23: get_statistics returns total = phishing + safe = urls + emails, no
\* count is negative, and total is the number of distinct keys saved.
C23_Statistics ==
  ret # None =>
    /\ ret[1].total = ret[1].phishing + ret[1].safe
    /\ ret[1].total = ret[1].urls + ret[1].emails
    /\ \A f \in DOMAIN ret[1] : ret[1][f] >= 0
    /\ ret[1].total = Cardinality(arg[1])

====
